---- MODULE Spec2Model ----
(***************************************************************************)
(* ScanzoQR: the service worker (cache router, cache strategies, control   *)
(* channel) as a state machine over the CacheStorage it shares with        *)
(* every handler in flight.                                                *)
(*                                                                         *)
(* Strings that the code inspects (URLs, manifest entries) are sequences   *)
(* of tokens, so that String.includes, String.replace and the origin       *)
(* regular expressions are computed, not assumed.  Cache names are a       *)
(* (prefix, rest) pair so that startsWith('scanzo-') is computed.          *)
(***************************************************************************)
EXTENDS Integers, Sequences, FiniteSets, TLC

\* ------------------------------------------------------------------ bounds
\* fetch events delivered to the worker in one run
MaxFetches == 2
\* control messages delivered to the worker in one run
MaxMessages == 1

\* ------------------------------------------------------------- cache names
CACHE_NAME == "scanzo-qr-v2.1.0"
STATIC_CACHE == [prefix |-> "scanzo-", rest |-> "static-v2.1.0"]
DYNAMIC_CACHE == [prefix |-> "scanzo-", rest |-> "dynamic-v2.1.0"]
\* the stores of the generation that is current while this one installs
OLD_STATIC_CACHE == [prefix |-> "scanzo-", rest |-> "static-v2.0.0"]
OLD_DYNAMIC_CACHE == [prefix |-> "scanzo-", rest |-> "dynamic-v2.0.0"]
\* a store of the same origin that is not this application's
FOREIGN_CACHE == [prefix |-> "workbox-", rest |-> "precache"]

CacheNames == {STATIC_CACHE, DYNAMIC_CACHE, OLD_STATIC_CACHE, OLD_DYNAMIC_CACHE, FOREIGN_CACHE}
NoName == [prefix |-> "", rest |-> ""]

\* name.startsWith('scanzo-')
StartsWithScanzo(name) == name.prefix = "scanzo-"

Gen2Stores == {STATIC_CACHE, DYNAMIC_CACHE}
Gen1Stores == {OLD_STATIC_CACHE, OLD_DYNAMIC_CACHE}

\* -------------------------------------------------------------------- URLs
\* self.location.origin, with the slash that ends it
SelfOrigin == "https://app.example/"

URL_ROOT == <<SelfOrigin>>
URL_INDEX == <<SelfOrigin, "index.html">>
URL_PAGE == <<SelfOrigin, "about.html">>
URL_FONT == <<"https://fonts.gstatic.com/", "s/inter.woff2">>
URL_CDN == <<"https://cdnjs.cloudflare.com/", "ajax/libs/font-awesome/6.4.0/css/all.min.css">>
URL_EXT == <<"https://api.example.com/", "data.json">>
URL_EXTENSION == <<"chrome-extension://abcdef/", "inject.js">>

URLs == {URL_ROOT, URL_INDEX, URL_PAGE, URL_FONT, URL_CDN, URL_EXT, URL_EXTENSION}

\* three of the sixteen manifest entries: the entry './', a relative path and
\* an absolute CDN URL
STATIC_ASSETS == << <<"./">>, <<"./", "index.html">>, URL_CDN >>

\* the origins of the three regular expressions, each anchored at the start
DYNAMIC_PATTERNS == {"https://fonts.gstatic.com/", "https://cdnjs.cloudflare.com/", "https://cdn.jsdelivr.net/"}

\* s.includes(t): t occurs in s as a contiguous run; the empty t always does
Includes(s, t) == \E i \in 0..(Len(s) - Len(t)) : SubSeq(s, i + 1, i + Len(t)) = t

\* asset.replace('./', ''): the first './' of the string removed
ReplaceDotSlash(asset) ==
    IF \E i \in DOMAIN asset : asset[i] = "./"
    THEN LET i == CHOOSE j \in DOMAIN asset :
                     asset[j] = "./" /\ \A k \in 1..(j - 1) : asset[k] # "./"
         IN SubSeq(asset, 1, i - 1) \o SubSeq(asset, i + 1, Len(asset))
    ELSE asset

\* the absolute URL a manifest entry names (fetch and Cache.put resolve it
\* against the worker's location)
ResolveURL(asset) == IF asset # <<>> /\ Head(asset) = "./" THEN <<SelfOrigin>> \o Tail(asset) ELSE asset

ManifestKeys == {ResolveURL(STATIC_ASSETS[k]) : k \in DOMAIN STATIC_ASSETS}

\* --------------------------------------------------------------- responses
\* successive versions of a resource's body
Bodies == {"v1", "v2", "v3"}
NotFound == [status |-> 404, body |-> "not-found"]
\* fetch() rejecting
NetworkError == [status |-> 0, body |-> "network-error"]
\* what a fetch can settle with while the network serves body: the resource,
\* a response that is not ok, or a rejection
FetchOutcomes(body) == {[status |-> 200, body |-> body], NotFound, NetworkError}
NoResponse == [status |-> -1, body |-> "none"]
\* an async function resolving with undefined
Undefined == [status |-> -2, body |-> "undefined"]

\* response.ok
Ok(response) == response.status >= 200 /\ response.status <= 299

\* ------------------------------------------------------------ CacheStorage
EmptyEntries == [u \in {} |-> NoResponse]

\* a Cache object held by a handler: it stays usable after caches.delete of
\* its name, but is then no store of the CacheStorage any more
NoHandle == [name |-> NoName, live |-> FALSE, snap |-> EmptyEntries]
LiveHandle(name) == [name |-> name, live |-> TRUE, snap |-> EmptyEntries]

\* entries with key written (a write for an existing key replaces it)
PutEntry(entries, key, response) ==
    [u \in (DOMAIN entries) \cup {key} |-> IF u = key THEN response ELSE entries[u]]

\* caches.open(name): the store is created when absent
OpenStore(cs, name) ==
    IF name \in DOMAIN cs THEN cs
    ELSE [n \in (DOMAIN cs) \cup {name} |-> IF n = name THEN EmptyEntries ELSE cs[n]]

\* caches.delete(name)
DeleteStore(cs, name) == [n \in (DOMAIN cs) \ {name} |-> cs[n]]

\* what a handle reads
HandleEntries(cs, h) == IF h.live THEN cs[h.name] ELSE h.snap

\* cache.put(key, response) through a handle
HandlePutStores(cs, h, key, response) ==
    IF h.live THEN [cs EXCEPT ![h.name] = PutEntry(@, key, response)] ELSE cs
HandlePutHandle(h, key, response) ==
    IF h.live THEN h ELSE [h EXCEPT !.snap = PutEntry(@, key, response)]

\* a handle after caches.delete(name) has removed the store it names
Detach(cs, h, name) ==
    IF h.live /\ h.name = name /\ name \in DOMAIN cs
    THEN [h EXCEPT !.live = FALSE, !.snap = cs[name]]
    ELSE h

VARIABLES
    caches,     \* the CacheStorage: store name -> (URL -> response), existing stores only
    sw,         \* the worker's lifecycle: state, skipWaiting flag, clients claimed
    inst,       \* the install handler
    act,        \* the activate handler
    fh,         \* the fetch handlers, one per fetch event
    mh,         \* the message handlers, one per control message
    history,    \* history: the stores at the start, and which handler's caches.delete removed which store
    served,     \* the body the network serves now for a resource that is reachable
    sm,         \* the page's StorageManager with its two backends
    sy,         \* the worker's sync and periodicsync handler
    qr,         \* the page's QRScannerModule
    pm          \* private mode: a content, its encryption and an unlock attempt

vars == <<caches, sw, inst, act, fh, mh, history, served, sm, sy, qr, pm>>

\* startCamera calls in one run
MaxCameraStarts == 2

\* no sync event is being handled
SyIdle == [pc |-> "idle", tag |-> "none", handle |-> NoHandle, todo |-> {}, cur |-> <<>>,
           net |-> NoResponse, events |-> 0, stored |-> FALSE, skipped |-> FALSE]

\* the scanner as its constructor leaves it: stream 0 is null; live are the
\* streams whose tracks run; pending counts the scheduled detectQR
\* callbacks; sc is where each startCamera call stands and by who made it
\* (the page, or restartScanning); supported is whether the device has
\* navigator.mediaDevices.getUserMedia; restarts counts
\* the restartScanning calls waiting for their timer; found counts the
\* calls of scanCallback
QrIdle == [isScanning |-> FALSE, stream |-> 0, live |-> {}, streams |-> 0, hidden |-> FALSE,
           pending |-> 0, sc |-> [c \in 1..MaxCameraStarts |-> "idle"],
           by |-> [c \in 1..MaxCameraStarts |-> "none"], restarts |-> 0, found |-> 0,
           supported |-> TRUE]

\* nothing encrypted yet
PmIdle == [pc |-> "idle", content |-> <<>>, password |-> <<>>, salt |-> <<>>,
           encrypted |-> <<>>, attempt |-> <<>>, result |-> <<>>]

\* ------------------------------------------------------- handler records
\* response: the ok response the task's fetch returned; stored: its put succeeded
NoTask == [pc |-> "idle", response |-> NoResponse, stored |-> FALSE]

InstIdle == [pc |-> "idle", del |-> {}, cache |-> NoHandle,
             task |-> [k \in DOMAIN STATIC_ASSETS |-> NoTask], outcome |-> "none"]
ActIdle == [pc |-> "idle", del |-> {}, outcome |-> "none"]

\* every Cache object in flight, after caches.delete(name) removed the store
DetachInst(cs, i, name) == [i EXCEPT !.cache = Detach(cs, @, name)]
DetachAll(cs, f, name) == [k \in DOMAIN f |-> [f[k] EXCEPT !.handle = Detach(cs, @, name)]]

\* one caches.delete(name) issued by handler `by` settling: the new
\* CacheStorage (a failed delete leaves the store)
AfterDelete(cs, name, ok) == IF ok THEN DeleteStore(cs, name) ELSE cs
Removed(cs, name, ok) == ok /\ name \in DOMAIN cs
NoteDeleted(cs, name, ok, by) ==
    IF Removed(cs, name, ok) THEN [history EXCEPT !.deleted = @ \cup {[name |-> name, by |-> by]}]
    ELSE history

\* -------------------------------------------------------- install listener
\* an install handler that deletes no store
InstallDeletesNothing(names) == {}

\* the stores the install handler deletes: every scanzo- store but STATIC_CACHE
InstallObsolete(names) == {n \in names : StartsWithScanzo(n) /\ n # STATIC_CACHE}

\* the worker once the install handler's promise has settled: the handler
\* catches every error, so the install always succeeds
SwAfterInstall(i) == IF i.pc = "done" THEN [sw EXCEPT !.state = "installed"] ELSE sw

\* the prewarm started: every manifest entry's fetch is issued at once
InstallStartPrewarm(i) ==
    [i EXCEPT !.pc = "prewarm",
              !.task = [k \in DOMAIN STATIC_ASSETS |-> [NoTask EXCEPT !.pc = "fetch"]]]

InstallEvent ==
    /\ sw.state = "parsed"
    /\ sw' = [sw EXCEPT !.state = "installing"]
    /\ inst' = [inst EXCEPT !.pc = "keys"]
    /\ UNCHANGED <<caches, act, fh, mh, history, served, sm, sy, qr, pm>>

\* caches.keys() settles; the deletes of Promise.all are issued together
InstallKeys(ok) ==
    /\ inst.pc = "keys"
    /\ LET names == InstallObsolete(DOMAIN caches)
           next == IF ~ok THEN [inst EXCEPT !.pc = "done", !.outcome = "caught"]
                   ELSE IF names = {} THEN [inst EXCEPT !.pc = "open"]
                   ELSE [inst EXCEPT !.pc = "deleting", !.del = names]
       IN /\ inst' = next
          /\ sw' = SwAfterInstall(next)
    /\ UNCHANGED <<caches, act, fh, mh, history, served, sm, sy, qr, pm>>

\* one caches.delete settles; Promise.all resolves with the last success and
\* rejects with the first failure (the other deletes go on)
InstallDeleted(name, ok) ==
    /\ name \in inst.del
    /\ LET i1 == [inst EXCEPT !.del = @ \ {name}]
           next == IF i1.pc # "deleting" THEN i1
                   ELSE IF ~ok THEN [i1 EXCEPT !.pc = "done", !.outcome = "caught"]
                   ELSE IF i1.del = {} THEN [i1 EXCEPT !.pc = "open"]
                   ELSE i1
       IN /\ inst' = next
          /\ sw' = IF inst.pc = "deleting" THEN SwAfterInstall(next) ELSE sw
    /\ caches' = AfterDelete(caches, name, ok)
    /\ history' = NoteDeleted(caches, name, ok, "install")
    /\ fh' = IF Removed(caches, name, ok) THEN DetachAll(caches, fh, name) ELSE fh
    /\ mh' = IF Removed(caches, name, ok) THEN DetachAll(caches, mh, name) ELSE mh
    /\ UNCHANGED <<act, served, sm, sy, qr, pm>>

\* caches.open(STATIC_CACHE) settles
InstallOpen(ok) ==
    /\ inst.pc = "open"
    /\ IF ok
       THEN /\ caches' = OpenStore(caches, STATIC_CACHE)
            /\ inst' = InstallStartPrewarm([inst EXCEPT !.cache = LiveHandle(STATIC_CACHE)])
            /\ sw' = sw
       ELSE /\ caches' = caches
            /\ inst' = [inst EXCEPT !.pc = "done", !.outcome = "caught"]
            /\ sw' = SwAfterInstall(inst')
    /\ UNCHANGED <<act, fh, mh, history, served, sm, sy, qr, pm>>

\* a prewarm that settles as soon as one task has ended
InstallSettlesOnFirst(i) ==
    IF i.pc = "prewarm" /\ \E k \in DOMAIN i.task : i.task[k].pc = "done"
    THEN [i EXCEPT !.pc = "done", !.outcome = "ok"]
    ELSE i

\* Promise.allSettled(cachePromises) resolves once every task has ended;
\* then self.skipWaiting()
InstallSettle(i) ==
    IF i.pc = "prewarm" /\ \A k \in DOMAIN i.task : i.task[k].pc = "done"
    THEN [i EXCEPT !.pc = "done", !.outcome = "ok"]
    ELSE i
SwAfterPrewarm(i) ==
    IF i.pc = "done" THEN [sw EXCEPT !.state = "installed", !.skipWaiting = TRUE] ELSE sw

\* does the prewarm store this response?
InstallCaches(response) == Ok(response)

\* fetch(url) of manifest entry k settles
InstallFetched(k, outcome) ==
    /\ inst.pc = "prewarm"
    /\ inst.task[k].pc = "fetch"
    /\ LET t == IF outcome # NetworkError /\ InstallCaches(outcome)
                THEN [inst.task[k] EXCEPT !.pc = "put", !.response = outcome]
                ELSE [inst.task[k] EXCEPT !.pc = "done"]
           next == InstallSettle([inst EXCEPT !.task[k] = t])
       IN /\ inst' = next
          /\ sw' = SwAfterPrewarm(next)
    /\ UNCHANGED <<caches, act, fh, mh, history, served, sm, sy, qr, pm>>

\* a prewarm that stores every entry under the first entry's URL
InstallKeyOfFirst(k) == ResolveURL(STATIC_ASSETS[1])

\* the key of staticCache.put(url, response) for manifest entry k
InstallKey(k) == ResolveURL(STATIC_ASSETS[k])

\* staticCache.put(url, response) of manifest entry k settles
InstallPut(k, ok) ==
    /\ inst.pc = "prewarm"
    /\ inst.task[k].pc = "put"
    /\ LET key == InstallKey(k)
           r == inst.task[k].response
           t == [inst.task[k] EXCEPT !.pc = "done", !.stored = ok]
           c == IF ok THEN HandlePutHandle(inst.cache, key, r) ELSE inst.cache
           next == InstallSettle([inst EXCEPT !.task[k] = t, !.cache = c])
       IN /\ inst' = next
          /\ sw' = SwAfterPrewarm(next)
          /\ caches' = IF ok THEN HandlePutStores(caches, inst.cache, key, r) ELSE caches
    /\ UNCHANGED <<act, fh, mh, history, served, sm, sy, qr, pm>>

Install ==
    \/ InstallEvent
    \/ \E ok \in BOOLEAN : InstallKeys(ok)
    \/ \E name \in CacheNames, ok \in BOOLEAN : InstallDeleted(name, ok)
    \/ \E ok \in BOOLEAN : InstallOpen(ok)
    \/ \E k \in DOMAIN STATIC_ASSETS, outcome \in FetchOutcomes(served) : InstallFetched(k, outcome)
    \/ \E k \in DOMAIN STATIC_ASSETS, ok \in BOOLEAN : InstallPut(k, ok)

\* ------------------------------------------------------- activate listener
\* the stores the activate handler deletes
ActivateObsolete(names) ==
    {n \in names : StartsWithScanzo(n) /\ n # STATIC_CACHE /\ n # DYNAMIC_CACHE}

SwAfterActivate(a) == IF a.pc = "done" THEN [sw EXCEPT !.state = "activated"] ELSE sw

\* the activate event is dispatched once the install has ended and the
\* worker may leave the waiting state (skipWaiting, or no client left to the
\* current generation)
ActivateEvent ==
    /\ sw.state = "installed"
    /\ sw' = [sw EXCEPT !.state = "activating"]
    /\ act' = [act EXCEPT !.pc = "keys"]
    /\ UNCHANGED <<caches, inst, fh, mh, history, served, sm, sy, qr, pm>>

ActivateKeys(ok) ==
    /\ act.pc = "keys"
    /\ LET names == ActivateObsolete(DOMAIN caches)
           next == IF ~ok THEN [act EXCEPT !.pc = "done", !.outcome = "caught"]
                   ELSE IF names = {} THEN [act EXCEPT !.pc = "claim"]
                   ELSE [act EXCEPT !.pc = "deleting", !.del = names]
       IN /\ act' = next
          /\ sw' = SwAfterActivate(next)
    /\ UNCHANGED <<caches, inst, fh, mh, history, served, sm, sy, qr, pm>>

ActivateDeleted(name, ok) ==
    /\ name \in act.del
    /\ LET a1 == [act EXCEPT !.del = @ \ {name}]
           next == IF a1.pc # "deleting" THEN a1
                   ELSE IF ~ok THEN [a1 EXCEPT !.pc = "done", !.outcome = "caught"]
                   ELSE IF a1.del = {} THEN [a1 EXCEPT !.pc = "claim"]
                   ELSE a1
       IN /\ act' = next
          /\ sw' = IF act.pc = "deleting" THEN SwAfterActivate(next) ELSE sw
    /\ caches' = AfterDelete(caches, name, ok)
    /\ history' = NoteDeleted(caches, name, ok, "activate")
    /\ inst' = IF Removed(caches, name, ok) THEN DetachInst(caches, inst, name) ELSE inst
    /\ fh' = IF Removed(caches, name, ok) THEN DetachAll(caches, fh, name) ELSE fh
    /\ mh' = IF Removed(caches, name, ok) THEN DetachAll(caches, mh, name) ELSE mh
    /\ UNCHANGED <<served, sm, sy, qr, pm>>

\* self.clients.claim() settles
ActivateClaim(ok) ==
    /\ act.pc = "claim"
    /\ act' = [act EXCEPT !.pc = "done", !.outcome = IF ok THEN "ok" ELSE "caught"]
    /\ sw' = [sw EXCEPT !.state = "activated", !.claimed = @ \/ ok]
    /\ UNCHANGED <<caches, inst, fh, mh, history, served, sm, sy, qr, pm>>

Activate ==
    \/ ActivateEvent
    \/ \E ok \in BOOLEAN : ActivateKeys(ok)
    \/ \E name \in CacheNames, ok \in BOOLEAN : ActivateDeleted(name, ok)
    \/ \E ok \in BOOLEAN : ActivateClaim(ok)

\* ---------------------------------------------------------------- requests
Request(url, method, html) == [url |-> url, method |-> method, html |-> html]
NoRequest == Request(<<>>, "", FALSE)

\* html: the Accept header contains text/html (a navigation)
Requests ==
    {Request(URL_INDEX, "GET", TRUE), Request(URL_PAGE, "GET", TRUE),
     Request(URL_FONT, "GET", FALSE), Request(URL_CDN, "GET", FALSE),
     Request(URL_EXT, "GET", FALSE), Request(URL_PAGE, "POST", FALSE),
     Request(URL_EXTENSION, "GET", FALSE)}

\* a listener that skips no scheme
NoSchemeSkipped(request) == FALSE

\* new URL(request.url).protocol === 'chrome-extension:'
IsExtension(request) == Head(request.url) = "chrome-extension://abcdef/"

\* STATIC_ASSETS.some(asset => request.url.includes(asset.replace('./', '')))
IsStaticAsset(request) ==
    \E k \in DOMAIN STATIC_ASSETS : Includes(request.url, ReplaceDotSlash(STATIC_ASSETS[k]))

\* DYNAMIC_PATTERNS.some(pattern => pattern.test(request.url))
IsDynamic(request) == Head(request.url) \in DYNAMIC_PATTERNS

\* url.origin === self.location.origin
IsSameOrigin(request) == Head(request.url) = SelfOrigin

\* the request names a manifest entry exactly
IsManifestEntry(request) == request.url \in ManifestKeys

\* the strategy handleFetch calls, and the store it passes
Route(request) ==
    IF IsStaticAsset(request) THEN [strategy |-> "cacheFirst", cacheName |-> STATIC_CACHE]
    ELSE IF IsDynamic(request) THEN [strategy |-> "networkFirstWithCache", cacheName |-> DYNAMIC_CACHE]
    ELSE IF IsSameOrigin(request) THEN [strategy |-> "staleWhileRevalidate", cacheName |-> STATIC_CACHE]
    ELSE [strategy |-> "networkFirst", cacheName |-> NoName]

\* ------------------------------------------------------ synthetic responses
CacheFirstUnavailable == [status |-> 503, body |-> "Offline - Resource not available"]
OfflinePage == [status |-> 200, body |-> "<title>ScanzoQR - Offline</title>"]
GenericUnavailable == [status |-> 503, body |-> "Offline"]

\* handleFetchError(request)
HandleFetchError(request) == IF request.html THEN OfflinePage ELSE GenericUnavailable

\* ----------------------------------------------------------- fetch handlers
\* ops: the storage and network calls the handler has seen settle, in order
\* cached: cachedResponse; net: what fetch settled with; err: the error caught
\* bg: the revalidation of staleWhileRevalidate, which outlives the call
FhIdle == [pc |-> "idle", via |-> "none", strategy |-> "none", request |-> NoRequest,
           cacheName |-> NoName, handle |-> NoHandle, net |-> NoResponse,
           cached |-> NoResponse, response |-> NoResponse, outcome |-> "none", err |-> "none",
           ops |-> <<>>, bg |-> "none"]

Op(op, name) == [op |-> op, name |-> name]
Log(h, op, name) == [h EXCEPT !.ops = Append(@, Op(op, name))]

FirstPc(strategy) ==
    CASE strategy = "cacheFirst" -> "cf_open"
      [] strategy = "networkFirstWithCache" -> "nf_fetch"
      [] strategy = "staleWhileRevalidate" -> "sw_open"
      [] OTHER -> "no_fetch"

Started(via, strategy, request, cacheName) ==
    [FhIdle EXCEPT !.pc = FirstPc(strategy), !.via = via, !.strategy = strategy,
                   !.request = request, !.cacheName = cacheName]

\* the strategy returns response
Returned(h, response) == [h EXCEPT !.pc = "done", !.response = response, !.outcome = "returned"]

\* the strategy throws: handleFetch catches and answers handleFetchError
Thrown(h) ==
    IF h.via = "handleFetch"
    THEN [h EXCEPT !.pc = "done", !.response = HandleFetchError(h.request), !.outcome = "fallback"]
    ELSE [h EXCEPT !.pc = "done", !.outcome = "thrown"]

\* the fetch listener: non-GET and chrome-extension requests are not answered
FetchEvent(f, request) ==
    /\ sw.state = "activated"
    /\ fh[f].pc = "idle"
    /\ \A g \in 1..(f - 1) : fh[g].pc # "idle"
    /\ fh' = [fh EXCEPT ![f] =
                IF request.method # "GET" \/ IsExtension(request)
                THEN [FhIdle EXCEPT !.pc = "done", !.via = "listener", !.request = request,
                                    !.outcome = "passed"]
                ELSE Started("handleFetch", Route(request).strategy, request, Route(request).cacheName)]
    /\ UNCHANGED <<caches, sw, inst, act, mh, history, served, sm, sy, qr, pm>>

\* ---- cacheFirst
\* a cacheFirst whose catch block only logs
CacheFirstCatchOnlyLogs(h, err) == Returned([h EXCEPT !.err = err], Undefined)

CacheFirstCaught(h, err) == Returned([h EXCEPT !.err = err], CacheFirstUnavailable)

\* a cacheFirst that stores no response
CacheFirstStoresNothing(response) == FALSE

\* does cacheFirst store this network response?
CacheFirstCaches(response) == Ok(response)

\* caches.open(cacheName) settles
CacheFirstOpen(f, ok) ==
    /\ fh[f].pc = "cf_open"
    /\ LET h == Log(fh[f], "open", fh[f].cacheName)
       IN IF ok
          THEN /\ caches' = OpenStore(caches, h.cacheName)
               /\ fh' = [fh EXCEPT ![f] = [h EXCEPT !.pc = "cf_match", !.handle = LiveHandle(h.cacheName)]]
          ELSE /\ caches' = caches
               /\ fh' = [fh EXCEPT ![f] = CacheFirstCaught(h, "storage")]
    /\ UNCHANGED <<sw, inst, act, mh, history, served, sm, sy, qr, pm>>

\* a cacheFirst that goes to the network whether or not the lookup hit
CacheFirstIgnoresHit(h, entries) == [h EXCEPT !.pc = "cf_fetch"]

\* what cacheFirst does with the result of cache.match(request)
CacheFirstMatched(h, entries) ==
    IF h.request.url \in DOMAIN entries
    THEN Returned([h EXCEPT !.cached = entries[h.request.url]], entries[h.request.url])
    ELSE [h EXCEPT !.pc = "cf_fetch"]

\* cache.match(request) settles
CacheFirstMatch(f, ok) ==
    /\ fh[f].pc = "cf_match"
    /\ LET h == Log(fh[f], "match", fh[f].cacheName)
       IN fh' = [fh EXCEPT ![f] = IF ok THEN CacheFirstMatched(h, HandleEntries(caches, h.handle))
                                   ELSE CacheFirstCaught(h, "storage")]
    /\ UNCHANGED <<caches, sw, inst, act, mh, history, served, sm, sy, qr, pm>>

\* fetch(request) settles
CacheFirstFetch(f, outcome) ==
    /\ fh[f].pc = "cf_fetch"
    /\ LET h == [Log(fh[f], "fetch", NoName) EXCEPT !.net = outcome]
       IN fh' = [fh EXCEPT ![f] =
                   IF outcome = NetworkError THEN CacheFirstCaught(h, "network")
                   ELSE IF CacheFirstCaches(outcome) THEN [h EXCEPT !.pc = "cf_put"]
                   ELSE Returned(h, outcome)]
    /\ UNCHANGED <<caches, sw, inst, act, mh, history, served, sm, sy, qr, pm>>

\* cache.put(request, networkResponse.clone()) settles
CacheFirstPut(f, ok) ==
    /\ fh[f].pc = "cf_put"
    /\ LET h == Log(fh[f], "put", fh[f].cacheName)
           key == h.request.url
       IN IF ok
          THEN /\ caches' = HandlePutStores(caches, h.handle, key, h.net)
               /\ fh' = [fh EXCEPT ![f] = Returned([h EXCEPT !.handle = HandlePutHandle(@, key, h.net)], h.net)]
          ELSE /\ caches' = caches
               /\ fh' = [fh EXCEPT ![f] = CacheFirstCaught(h, "storage")]
    /\ UNCHANGED <<sw, inst, act, mh, history, served, sm, sy, qr, pm>>

CacheFirst ==
    \/ \E f \in DOMAIN fh, ok \in BOOLEAN : CacheFirstOpen(f, ok)
    \/ \E f \in DOMAIN fh, ok \in BOOLEAN : CacheFirstMatch(f, ok)
    \/ \E f \in DOMAIN fh, outcome \in FetchOutcomes(served) : CacheFirstFetch(f, outcome)
    \/ \E f \in DOMAIN fh, ok \in BOOLEAN : CacheFirstPut(f, ok)

\* ---- networkFirstWithCache
\* a networkFirstWithCache that never stores what the network returned
NetworkFirstStoresNothing(response) == FALSE

\* does networkFirstWithCache store this network response?
NetworkFirstCaches(response) == Ok(response)

\* what networkFirstWithCache does with a response of the network
NetworkFirstFetched(h, outcome) ==
    IF NetworkFirstCaches(outcome) THEN [h EXCEPT !.pc = "nf_open", !.net = outcome]
    ELSE Returned([h EXCEPT !.net = outcome], outcome)

\* fetch(request, {mode: 'cors'}) settles; a rejection enters the catch
\* block, whose first call is caches.open(cacheName)
NetworkFirstFetch(f, outcome) ==
    /\ fh[f].pc = "nf_fetch"
    /\ LET h == Log(fh[f], "fetch", NoName)
       IN fh' = [fh EXCEPT ![f] =
                   IF outcome = NetworkError THEN [h EXCEPT !.pc = "nf_catch_open", !.net = outcome, !.err = "network"]
                   ELSE NetworkFirstFetched(h, outcome)]
    /\ UNCHANGED <<caches, sw, inst, act, mh, history, served, sm, sy, qr, pm>>

\* caches.open(cacheName) of the try block settles
NetworkFirstOpen(f, ok) ==
    /\ fh[f].pc = "nf_open"
    /\ LET h == Log(fh[f], "open", fh[f].cacheName)
       IN IF ok
          THEN /\ caches' = OpenStore(caches, h.cacheName)
               /\ fh' = [fh EXCEPT ![f] = [h EXCEPT !.pc = "nf_put", !.handle = LiveHandle(h.cacheName)]]
          ELSE /\ caches' = caches
               /\ fh' = [fh EXCEPT ![f] = [h EXCEPT !.pc = "nf_catch_open", !.err = "storage"]]
    /\ UNCHANGED <<sw, inst, act, mh, history, served, sm, sy, qr, pm>>

\* cache.put(request, networkResponse.clone()) settles
NetworkFirstPut(f, ok) ==
    /\ fh[f].pc = "nf_put"
    /\ LET h == Log(fh[f], "put", fh[f].cacheName)
           key == h.request.url
       IN IF ok
          THEN /\ caches' = HandlePutStores(caches, h.handle, key, h.net)
               /\ fh' = [fh EXCEPT ![f] = Returned([h EXCEPT !.handle = HandlePutHandle(@, key, h.net)], h.net)]
          ELSE /\ caches' = caches
               /\ fh' = [fh EXCEPT ![f] = [h EXCEPT !.pc = "nf_catch_open", !.handle = NoHandle, !.err = "storage"]]
    /\ UNCHANGED <<sw, inst, act, mh, history, served, sm, sy, qr, pm>>

\* caches.open(cacheName) of the catch block settles; its failure leaves
\* the function
NetworkFirstCatchOpen(f, ok) ==
    /\ fh[f].pc = "nf_catch_open"
    /\ LET h == Log(fh[f], "open", fh[f].cacheName)
       IN IF ok
          THEN /\ caches' = OpenStore(caches, h.cacheName)
               /\ fh' = [fh EXCEPT ![f] = [h EXCEPT !.pc = "nf_catch_match", !.handle = LiveHandle(h.cacheName)]]
          ELSE /\ caches' = caches
               /\ fh' = [fh EXCEPT ![f] = Thrown(h)]
    /\ UNCHANGED <<sw, inst, act, mh, history, served, sm, sy, qr, pm>>

\* the catch block with the result of cache.match(request)
NetworkFirstFallback(h, entries) ==
    IF h.request.url \in DOMAIN entries
    THEN Returned([h EXCEPT !.cached = entries[h.request.url]], entries[h.request.url])
    ELSE Thrown(h)

\* cache.match(request) of the catch block settles
NetworkFirstCatchMatch(f, ok) ==
    /\ fh[f].pc = "nf_catch_match"
    /\ LET h == Log(fh[f], "match", fh[f].cacheName)
       IN fh' = [fh EXCEPT ![f] = IF ok THEN NetworkFirstFallback(h, HandleEntries(caches, h.handle))
                                   ELSE Thrown(h)]
    /\ UNCHANGED <<caches, sw, inst, act, mh, history, served, sm, sy, qr, pm>>

NetworkFirstWithCache ==
    \/ \E f \in DOMAIN fh, outcome \in FetchOutcomes(served) : NetworkFirstFetch(f, outcome)
    \/ \E f \in DOMAIN fh, ok \in BOOLEAN : NetworkFirstOpen(f, ok)
    \/ \E f \in DOMAIN fh, ok \in BOOLEAN : NetworkFirstPut(f, ok)
    \/ \E f \in DOMAIN fh, ok \in BOOLEAN : NetworkFirstCatchOpen(f, ok)
    \/ \E f \in DOMAIN fh, ok \in BOOLEAN : NetworkFirstCatchMatch(f, ok)

\* ---- staleWhileRevalidate
\* caches.open(cacheName) settles; its failure leaves the function
StaleOpen(f, ok) ==
    /\ fh[f].pc = "sw_open"
    /\ LET h == Log(fh[f], "open", fh[f].cacheName)
       IN IF ok
          THEN /\ caches' = OpenStore(caches, h.cacheName)
               /\ fh' = [fh EXCEPT ![f] = [h EXCEPT !.pc = "sw_match", !.handle = LiveHandle(h.cacheName)]]
          ELSE /\ caches' = caches
               /\ fh' = [fh EXCEPT ![f] = Thrown(h)]
    /\ UNCHANGED <<sw, inst, act, mh, history, served, sm, sy, qr, pm>>

\* with the result of cache.match the revalidating fetch is issued; a stored
\* response is returned at once, otherwise the call waits for the fetch
StaleMatched(h, entries) ==
    IF h.request.url \in DOMAIN entries
    THEN Returned([h EXCEPT !.bg = "fetch", !.cached = entries[h.request.url]], entries[h.request.url])
    ELSE [h EXCEPT !.pc = "sw_wait", !.bg = "fetch"]

\* cache.match(request) settles
StaleMatch(f, ok) ==
    /\ fh[f].pc = "sw_match"
    /\ LET h == Log(fh[f], "match", fh[f].cacheName)
       IN fh' = [fh EXCEPT ![f] = IF ok THEN StaleMatched(h, HandleEntries(caches, h.handle))
                                   ELSE Thrown(h)]
    /\ UNCHANGED <<caches, sw, inst, act, mh, history, served, sm, sy, qr, pm>>

\* does the revalidation store this network response?
StaleCaches(response) == Ok(response)

\* what fetchPromise resolves with: the rejection of fetch is caught and
\* logged, and the promise resolves with undefined
StaleFetchResult(outcome) == IF outcome = NetworkError THEN Undefined ELSE outcome

\* the revalidating fetch settles: cache.put is issued and not awaited, and
\* a call waiting for fetchPromise returns
StaleFetch(f, outcome) ==
    /\ fh[f].bg = "fetch"
    /\ LET h0 == Log(fh[f], "fetch", NoName)
           h == [h0 EXCEPT !.net = outcome,
                           !.bg = IF outcome # NetworkError /\ StaleCaches(outcome) THEN "put" ELSE "done"]
       IN fh' = [fh EXCEPT ![f] = IF h.pc = "sw_wait" THEN Returned(h, StaleFetchResult(outcome)) ELSE h]
    /\ UNCHANGED <<caches, sw, inst, act, mh, history, served, sm, sy, qr, pm>>

\* the cache.put of the revalidation settles; nobody awaits it
StalePut(f, ok) ==
    /\ fh[f].bg = "put"
    /\ LET h == Log(fh[f], "put", fh[f].cacheName)
           key == h.request.url
       IN IF ok
          THEN /\ caches' = HandlePutStores(caches, h.handle, key, h.net)
               /\ fh' = [fh EXCEPT ![f] = [h EXCEPT !.bg = "done", !.handle = HandlePutHandle(@, key, h.net)]]
          ELSE /\ caches' = caches
               /\ fh' = [fh EXCEPT ![f] = [h EXCEPT !.bg = "done"]]
    /\ UNCHANGED <<sw, inst, act, mh, history, served, sm, sy, qr, pm>>

StaleWhileRevalidate ==
    \/ \E f \in DOMAIN fh, ok \in BOOLEAN : StaleOpen(f, ok)
    \/ \E f \in DOMAIN fh, ok \in BOOLEAN : StaleMatch(f, ok)
    \/ \E f \in DOMAIN fh, outcome \in FetchOutcomes(served) : StaleFetch(f, outcome)
    \/ \E f \in DOMAIN fh, ok \in BOOLEAN : StalePut(f, ok)

\* ---- networkFirst (network only)
NetworkOnlyFetch(f, outcome) ==
    /\ fh[f].pc = "no_fetch"
    /\ LET h == Log(fh[f], "fetch", NoName)
       IN fh' = [fh EXCEPT ![f] = IF outcome = NetworkError THEN Thrown([h EXCEPT !.net = outcome])
                                   ELSE Returned([h EXCEPT !.net = outcome], outcome)]
    /\ UNCHANGED <<caches, sw, inst, act, mh, history, served, sm, sy, qr, pm>>

NetworkFirst == \E f \in DOMAIN fh, outcome \in FetchOutcomes(served) : NetworkOnlyFetch(f, outcome)

\* --------------------------------------------------------- message listener
EmptyStatus == [n \in {} |-> [size |-> 0, urls |-> {}]]

\* type: the command name ("NODATA": event.data is not an object);
\* port: the message carries a reply port; replies: what was posted on it;
\* threw: the handler, or a promise reaction of it, ended in a TypeError
\* at: the worker's state when the message arrived; caught: a storage
\* failure was caught
MhIdle == [pc |-> "idle", type |-> "none", port |-> FALSE, at |-> "none", del |-> {},
           handle |-> NoHandle, todo |-> {}, cur |-> NoName, status |-> EmptyStatus,
           replies |-> <<>>, threw |-> FALSE, caught |-> FALSE]

MessageTypes == {"SKIP_WAITING", "GET_VERSION", "CLEAR_CACHE", "CACHE_STATUS", "UNKNOWN", "NODATA"}

\* event.ports[0].postMessage(message): a TypeError when there is no port
Reply(h, message) ==
    IF h.port THEN [h EXCEPT !.pc = "done", !.replies = Append(@, message)]
    ELSE [h EXCEPT !.pc = "done", !.threw = TRUE]

VersionResponse == [type |-> "VERSION_RESPONSE", version |-> CACHE_NAME]
\* error: error.message, which only the failure reply carries
CacheCleared(success) ==
    [type |-> "CACHE_CLEARED", success |-> success,
     error |-> IF success THEN "undefined" ELSE "storage-unavailable"]
CacheStatusResponse(status) == [type |-> "CACHE_STATUS_RESPONSE", status |-> status]

\* the listener up to the first await of the command's handler
Received(type, port) ==
    LET h == [MhIdle EXCEPT !.type = type, !.port = port, !.at = sw.state]
    IN CASE type = "NODATA" -> [h EXCEPT !.pc = "done", !.threw = TRUE]
         [] type = "SKIP_WAITING" -> [h EXCEPT !.pc = "done"]
         [] type = "GET_VERSION" -> Reply(h, VersionResponse)
         [] type = "CLEAR_CACHE" -> [h EXCEPT !.pc = "cl_keys"]
         [] type = "CACHE_STATUS" -> [h EXCEPT !.pc = "st_keys"]
         [] OTHER -> [h EXCEPT !.pc = "done"]

MessageEvent(m, type, port) ==
    /\ sw.state # "parsed"
    /\ mh[m].pc = "idle"
    /\ \A g \in 1..(m - 1) : mh[g].pc # "idle"
    /\ mh' = [mh EXCEPT ![m] = Received(type, port)]
    /\ sw' = IF type = "SKIP_WAITING" THEN [sw EXCEPT !.skipWaiting = TRUE] ELSE sw
    /\ UNCHANGED <<caches, inst, act, fh, history, served, sm, sy, qr, pm>>

\* ---- clearAllCaches
\* a clearAllCaches that spares the stores of the current generation
ClearSparesCurrent(names) == {n \in names : StartsWithScanzo(n) /\ n \notin Gen2Stores}

\* the stores clearAllCaches deletes
ClearObsolete(names) == {n \in names : StartsWithScanzo(n)}

\* caches.keys() settles; a failure is rethrown and answered success: false
ClearKeys(m, ok) ==
    /\ mh[m].pc = "cl_keys"
    /\ LET names == ClearObsolete(DOMAIN caches)
       IN mh' = [mh EXCEPT ![m] =
                   IF ~ok THEN Reply([@ EXCEPT !.caught = TRUE], CacheCleared(FALSE))
                   ELSE IF names = {} THEN Reply(@, CacheCleared(TRUE))
                   ELSE [@ EXCEPT !.pc = "cl_deleting", !.del = names]]
    /\ UNCHANGED <<caches, sw, inst, act, fh, history, served, sm, sy, qr, pm>>

\* one caches.delete settles
ClearDeleted(m, name, ok) ==
    /\ name \in mh[m].del
    /\ LET all == IF Removed(caches, name, ok) THEN DetachAll(caches, mh, name) ELSE mh
           h1 == [all[m] EXCEPT !.del = @ \ {name}]
           next == IF h1.pc # "cl_deleting" THEN h1
                   ELSE IF ~ok THEN Reply([h1 EXCEPT !.caught = TRUE], CacheCleared(FALSE))
                   ELSE IF h1.del = {} THEN Reply(h1, CacheCleared(TRUE))
                   ELSE h1
       IN mh' = [all EXCEPT ![m] = next]
    /\ caches' = AfterDelete(caches, name, ok)
    /\ history' = NoteDeleted(caches, name, ok, "clear")
    /\ inst' = IF Removed(caches, name, ok) THEN DetachInst(caches, inst, name) ELSE inst
    /\ fh' = IF Removed(caches, name, ok) THEN DetachAll(caches, fh, name) ELSE fh
    /\ UNCHANGED <<sw, act, served, sm, sy, qr, pm>>

ClearAllCaches ==
    \/ \E m \in DOMAIN mh, ok \in BOOLEAN : ClearKeys(m, ok)
    \/ \E m \in DOMAIN mh, name \in CacheNames, ok \in BOOLEAN : ClearDeleted(m, name, ok)

\* ---- getCacheStatus
\* the names of caches.keys() that the loop looks into
StatusNames(names) == {n \in names : StartsWithScanzo(n)}

\* status[name] = {size: keys.length, urls: keys.map(request => request.url)}
StatusEntry(entries) == [size |-> Cardinality(DOMAIN entries), urls |-> DOMAIN entries]

\* the loop after one name: the next caches.open, or the reply
StatusNext(h) == IF h.todo = {} THEN Reply(h, CacheStatusResponse(h.status)) ELSE [h EXCEPT !.pc = "st_open"]

\* any failure is caught and the status is {}
StatusCaught(h) == Reply([h EXCEPT !.caught = TRUE], CacheStatusResponse(EmptyStatus))

\* caches.keys() settles
StatusKeys(m, ok) ==
    /\ mh[m].pc = "st_keys"
    /\ mh' = [mh EXCEPT ![m] = IF ok THEN StatusNext([@ EXCEPT !.todo = StatusNames(DOMAIN caches)])
                                ELSE StatusCaught(@)]
    /\ UNCHANGED <<caches, sw, inst, act, fh, history, served, sm, sy, qr, pm>>

\* caches.open(name) of the next name settles
StatusOpen(m, name, ok) ==
    /\ mh[m].pc = "st_open"
    /\ name \in mh[m].todo
    /\ IF ok
       THEN /\ caches' = OpenStore(caches, name)
            /\ mh' = [mh EXCEPT ![m] = [@ EXCEPT !.pc = "st_cache_keys", !.cur = name,
                                                 !.todo = @ \ {name}, !.handle = LiveHandle(name)]]
       ELSE /\ caches' = caches
            /\ mh' = [mh EXCEPT ![m] = StatusCaught(@)]
    /\ UNCHANGED <<sw, inst, act, fh, history, served, sm, sy, qr, pm>>

\* cache.keys() settles
StatusCacheKeys(m, ok) ==
    /\ mh[m].pc = "st_cache_keys"
    /\ LET h == mh[m]
           entry == StatusEntry(HandleEntries(caches, h.handle))
           st == [n \in (DOMAIN h.status) \cup {h.cur} |-> IF n = h.cur THEN entry ELSE h.status[n]]
       IN mh' = [mh EXCEPT ![m] = IF ok THEN StatusNext([h EXCEPT !.status = st, !.handle = NoHandle])
                                   ELSE StatusCaught(h)]
    /\ UNCHANGED <<caches, sw, inst, act, fh, history, served, sm, sy, qr, pm>>

GetCacheStatus ==
    \/ \E m \in DOMAIN mh, ok \in BOOLEAN : StatusKeys(m, ok)
    \/ \E m \in DOMAIN mh, name \in CacheNames, ok \in BOOLEAN : StatusOpen(m, name, ok)
    \/ \E m \in DOMAIN mh, ok \in BOOLEAN : StatusCacheKeys(m, ok)

\* ----------------------------------------------------------- StorageManager
\* history records, as the page builds them: the identifier, the timestamp,
\* the raw content and the rendered image; the fields every projection
\* keeps (type, mode, contentType, preview, size) are left out
MaxId == 3
Ids == 1..MaxId

\* the timestamp of the record with each identifier: not in the order of
\* the identifiers, and one of them shared
TimeOf(id) == IF id = 2 THEN 1 ELSE 2

\* a missing property
Missing == "undefined"

\* the record saveToHistory builds
Full(id) == [id |-> id, timestamp |-> TimeOf(id), content |-> "text", qrData |-> "data:image/png"]

\* what saveToLocalStorage writes first for a record
Placeholder(item) ==
    [item EXCEPT !.qrData = IF item.qrData # Missing THEN "stored_in_indexeddb" ELSE Missing]

\* a minimal projection that keeps the raw content
MinimalWithContent(item) == [item EXCEPT !.qrData = Missing]

\* what saveToLocalStorage writes for a record after QuotaExceededError
Minimal(item) == [item EXCEPT !.content = Missing, !.qrData = Missing]

\* historyArray.map(item => ...) of the first write and of the retry
DataToStore(items) == [i \in DOMAIN items |-> Placeholder(items[i])]
MinimalData(items) == [i \in DOMAIN items |-> Minimal(items[i])]

IdsOf(items) == {items[i].id : i \in DOMAIN items}
DistinctIds(items) == \A i, j \in DOMAIN items : items[i].id = items[j].id => i = j

\* merged.set(item.id, item): a Map keeps the place of a key it has
MapSet(merged, item) ==
    IF item.id \in IdsOf(merged)
    THEN [i \in DOMAIN merged |-> IF merged[i].id = item.id THEN item ELSE merged[i]]
    ELSE Append(merged, item)

RECURSIVE SetEach(_, _)
\* indexedData.forEach(item => merged.set(item.id, item))
SetEach(merged, items) ==
    IF items = <<>> THEN merged ELSE SetEach(MapSet(merged, Head(items)), Tail(items))

\* a merge that adds every local item, present or not
AppendEach(merged, items) == merged \o items

RECURSIVE SetEachMissing(_, _)
\* localData.forEach(item => { if (!merged.has(item.id)) merged.set(item.id, item) })
SetEachMissing(merged, items) ==
    IF items = <<>> THEN merged
    ELSE SetEachMissing(IF Head(items).id \in IdsOf(merged) THEN merged ELSE Append(merged, Head(items)),
                        Tail(items))

\* a merge seeded from the local data
MergeLocalFirst(localData, indexedData) == SetEachMissing(SetEach(<<>>, localData), indexedData)

\* mergeHistoryData(localData, indexedData): Array.from(merged.values())
MergeHistoryData(localData, indexedData) == SetEachMissing(SetEach(<<>>, indexedData), localData)

\* one item put into a list sorted by timestamp descending, behind the
\* items it does not precede (Array.prototype.sort is stable)
InsertByTimestamp(sorted, item) ==
    LET before == {i \in DOMAIN sorted : sorted[i].timestamp >= item.timestamp}
        k == IF before = {} THEN 0 ELSE CHOOSE i \in before : \A j \in before : j <= i
    IN SubSeq(sorted, 1, k) \o <<item>> \o SubSeq(sorted, k + 1, Len(sorted))

RECURSIVE SortFrom(_, _)
SortFrom(sorted, items) ==
    IF items = <<>> THEN sorted ELSE SortFrom(InsertByTimestamp(sorted, Head(items)), Tail(items))

\* items.sort((a, b) => new Date(b.timestamp) - new Date(a.timestamp))
SortByTimestamp(items) == SortFrom(<<>>, items)

\* store.getAll(): the records of the object store in the order of their keys
GetAll(store) ==
    CHOOSE items \in [1..Cardinality(store) -> store] :
        /\ {items[i] : i \in DOMAIN items} = store
        /\ \A i, j \in DOMAIN items : i < j => items[i].id < items[j].id

\* idb: "opening" until init() has opened the database, then "ready"
\*   (isIndexedDBAvailable && db) or "unavailable"
\* ls: the array under localStorage 'qrHistory'; store: the object store
\* pc, arg, local: the call in flight, the array being saved, localData
\* lsWrite, idbWrite: how the two writes of the last saveHistory settled
\* saveResult, loadResult, returned: how the last calls ended
\* idbRead: how the read of the object store by the last loadHistory ended
\* ops: the calls made, in order
\* merge: the arguments and results of mergeHistoryData called on its own
\* app: this.history of the page; starts: how often the page was opened
\* deleted: the identifiers deleteHistoryItem and clearHistory removed
\* imaged: the identifiers whose record the larger backend held with its
\*   image when the page was first opened
\* now: what Date.now() returns
\* calls: the saveHistory calls that may overlap, in the order of their issue;
\*   txs: those whose transaction on the object store has not finished, in
\*   the order the transactions were created
NoMerge == [a |-> <<>>, b |-> <<>>, ab |-> <<>>, ba |-> <<>>, aa |-> <<>>, done |-> FALSE]
SmIdle == [idb |-> "opening", ls |-> <<>>, store |-> {}, pc |-> "idle", arg |-> <<>>,
           local |-> <<>>, lsWrite |-> "none", idbWrite |-> "none", saveResult |-> "none",
           idbRead |-> "none", loadResult |-> "none", returned |-> <<>>, ops |-> <<>>,
           merge |-> NoMerge, app |-> <<>>, starts |-> 0, deleted |-> {}, imaged |-> {}, now |-> 1,
           calls |-> <<>>, txs |-> <<>>]

\* the service worker and the page's other modules, which the StorageManager
\* does not touch
worker == <<caches, sw, inst, act, fh, mh, history, served, sy, qr, pm>>

\* calls of saveHistory and loadHistory in one run
MaxOps == 2
\* the longest array saved
MaxLen == 2

\* init() settles: the database is open, or IndexedDB is not to be had
InitSettled(available) ==
    /\ sm.idb = "opening"
    /\ sm' = [sm EXCEPT !.idb = IF available THEN "ready" ELSE "unavailable"]
    /\ UNCHANGED worker

\* saveToLocalStorage(historyArray): first is how the first setItem ends
\* ("ok", "quota": QuotaExceededError, "error": another error), retry
\* whether the setItem of the minimal data succeeds
SaveToLocalStorage(items, first, retry) ==
    IF first = "ok" THEN [ls |-> DataToStore(items), settled |-> "full"]
    ELSE IF first = "quota" /\ retry THEN [ls |-> MinimalData(items), settled |-> "minimal"]
    ELSE [ls |-> sm.ls, settled |-> IF first = "quota" THEN "quota-rejected" ELSE "rejected"]

\* Promise.allSettled(savePromises) is fulfilled whatever the promises do
AllSettled(results) == "fulfilled"

\* what saveHistory ends with once the writes have settled
SaveHistoryResult(results) == IF AllSettled(results) = "fulfilled" THEN "true" ELSE "rejected"

\* the StorageManager once saveHistory(historyArray) has reached its await:
\* the fast backend is written, the transaction on the larger backend is
\* started if it is ready
SaveHistoryCalled(items, first, retry) ==
    LET w == SaveToLocalStorage(items, first, retry)
        h == [sm EXCEPT !.ls = w.ls, !.lsWrite = w.settled, !.arg = items,
                        !.ops = Append(@, "save"), !.local = <<>>, !.idbRead = "none",
                        !.loadResult = "none", !.returned = <<>>]
    IN IF sm.idb = "ready"
       THEN [h EXCEPT !.pc = "save_idb", !.idbWrite = "pending", !.saveResult = "none"]
       ELSE [h EXCEPT !.idbWrite = "skipped", !.saveResult = SaveHistoryResult({w.settled})]

\* saveHistory(historyArray) up to its await
SaveHistory(items, first, retry) ==
    /\ sm.pc = "idle"
    /\ Len(sm.ops) < MaxOps
    /\ sm' = SaveHistoryCalled(items, first, retry)
    /\ UNCHANGED worker

\* a transaction whose failure leaves the store cleared
SaveToIndexedDBKeepsClear(ok) ==
    /\ sm.pc = "save_idb"
    /\ ok => DistinctIds(sm.arg)
    /\ LET settled == IF ok THEN "complete" ELSE "rejected"
       IN sm' = [sm EXCEPT !.pc = "idle",
                           !.store = IF ok THEN {sm.arg[i] : i \in DOMAIN sm.arg} ELSE {},
                           !.idbWrite = settled,
                           !.saveResult = SaveHistoryResult({sm.lsWrite, settled})]
    /\ UNCHANGED worker

\* saveToIndexedDB(historyArray) settles: the transaction completes with
\* the store cleared and every item added, or it fails and is rolled back
\* (an item whose key is already in the store cannot be added)
SaveToIndexedDB(ok) ==
    /\ sm.pc = "save_idb"
    /\ ok => DistinctIds(sm.arg)
    /\ LET settled == IF ok THEN "complete" ELSE "rejected"
       IN sm' = [sm EXCEPT !.pc = "idle",
                           !.store = IF ok THEN {sm.arg[i] : i \in DOMAIN sm.arg} ELSE @,
                           !.idbWrite = settled,
                           !.saveResult = SaveHistoryResult({sm.lsWrite, settled})]
    /\ UNCHANGED worker

\* what loadHistory returns once it has localData and indexedData
LoadMerged(localData, indexedData) == SortByTimestamp(MergeHistoryData(localData, indexedData))

\* loadHistory() up to its second await: readable is whether getItem and
\* JSON.parse succeed (loadFromLocalStorage returns [] when they do not)
LoadHistory(readable) ==
    /\ sm.pc = "idle"
    /\ Len(sm.ops) < MaxOps
    /\ LET localData == IF readable THEN sm.ls ELSE <<>>
           h == [sm EXCEPT !.local = localData, !.ops = Append(@, "load")]
       IN sm' = IF sm.idb = "ready"
                THEN [h EXCEPT !.pc = "load_idb", !.idbRead = "pending", !.loadResult = "none",
                               !.returned = <<>>]
                ELSE [h EXCEPT !.idbRead = "skipped", !.loadResult = "returned",
                               !.returned = SortByTimestamp(localData)]
    /\ UNCHANGED worker

\* loadFromIndexedDB() settles: getAll succeeds ("success"), its request
\* fails ("error": resolved with []), or db.transaction / getAll throws
\* ("threw": the promise rejects and the catch of loadHistory returns [])
LoadFromIndexedDB(read) ==
    /\ sm.pc = "load_idb"
    /\ sm' = [sm EXCEPT !.pc = "idle", !.idbRead = read, !.loadResult = "returned",
                        !.returned = CASE read = "success" -> LoadMerged(sm.local, GetAll(sm.store))
                                       [] read = "error" -> LoadMerged(sm.local, <<>>)
                                       [] OTHER -> <<>>]
    /\ UNCHANGED worker

\* the arrays the page saves: records with identifiers of their own
RECURSIVE ArraysUpTo(_)
ArraysUpTo(n) ==
    IF n = 0 THEN {<<>>}
    ELSE ArraysUpTo(n - 1) \cup
         {Append(items, Full(id)) : items \in {x \in ArraysUpTo(n - 1) : Len(x) = n - 1}, id \in Ids}
HistoryArrays == {items \in ArraysUpTo(MaxLen) : DistinctIds(items)}

\* what the backends may hold from earlier sessions
PriorLocal == {<<>>, DataToStore(<<Full(1), Full(2)>>), MinimalData(<<Full(3)>>)}
PriorStores == {{}, {Full(2), Full(3)}, {Full(1)}}

\* ---- mergeHistoryData on its own
\* the records an array may hold: with the image, or with its placeholder
AnyRecords == {Full(id) : id \in Ids} \cup {Placeholder(Full(id)) : id \in Ids}

RECURSIVE ListsUpTo(_)
ListsUpTo(n) ==
    IF n = 0 THEN {<<>>}
    ELSE ListsUpTo(n - 1) \cup
         {Append(items, r) : items \in {x \in ListsUpTo(n - 1) : Len(x) = n - 1}, r \in AnyRecords}

\* ------------------------------------------------------------ the program
Entry(url, body) == [u \in {url} |-> [status |-> 200, body |-> body]]

\* what the stores of the origin may hold when the worker is installed
SeedCaches ==
    [n \in CacheNames |->
        CASE n = OLD_STATIC_CACHE -> Entry(URL_INDEX, "v1")
          [] n = OLD_DYNAMIC_CACHE -> Entry(URL_FONT, "v1")
          [] n = STATIC_CACHE -> Entry(URL_PAGE, "v1")
          [] n = DYNAMIC_CACHE -> Entry(URL_FONT, "v1")
          [] OTHER -> EmptyEntries]

Restrict(cs, names) == [n \in names |-> cs[n]]

\* a first install; an upgrade from the previous generation; the same with
\* a foreign store; a redeploy of the same version
InstallTimeStores ==
    {{}, Gen1Stores, Gen1Stores \cup {FOREIGN_CACHE}, Gen2Stores \cup {FOREIGN_CACHE}}

SwParsed == [state |-> "parsed", skipWaiting |-> FALSE, claimed |-> FALSE]

Init ==
    /\ caches \in {Restrict(SeedCaches, names) : names \in InstallTimeStores}
    /\ sy = SyIdle /\ qr = QrIdle /\ pm = PmIdle
    /\ sw = SwParsed
    /\ inst = InstIdle
    /\ act = ActIdle
    /\ fh = [f \in 1..MaxFetches |-> FhIdle]
    /\ mh = [m \in 1..MaxMessages |-> MhIdle]
    /\ history = [initial |-> DOMAIN caches, deleted |-> {}]
    /\ served = "v2"
    /\ sm = SmIdle

\* the commands the foreground sends while the worker installs and activates
LifecycleMessages == {"SKIP_WAITING", "CLEAR_CACHE", "CACHE_STATUS"}

Message == \E m \in DOMAIN mh, type \in LifecycleMessages : MessageEvent(m, type, TRUE)

Next == Install \/ Activate \/ Message \/ ClearAllCaches \/ GetCacheStatus

Spec == Init /\ [][Next]_vars

\* ----------------------------------------- the activated worker's fetches
\* the origin publishes a new version of its resources
Publish ==
    /\ served = "v2"
    /\ served' = "v3"
    /\ UNCHANGED <<caches, sw, inst, act, fh, mh, history, sm, sy, qr, pm>>

Entries(urls, body) == [u \in urls |-> [status |-> 200, body |-> body]]

\* the CacheStorage the activated worker may find: no store (the install
\* could not open one, or the caches were cleared); the prewarmed static
\* store; a static store that a part of the prewarm and an earlier request
\* filled, beside a foreign store
ActivatedCaches ==
    {Restrict(SeedCaches, {}),
     [n \in {STATIC_CACHE} |-> Entries(ManifestKeys, "v1")],
     [n \in {STATIC_CACHE, FOREIGN_CACHE} |->
         IF n = STATIC_CACHE THEN Entries({URL_INDEX, URL_PAGE}, "v1") ELSE EmptyEntries]}

SwActivated == [state |-> "activated", skipWaiting |-> TRUE, claimed |-> TRUE]

InitFetch ==
    /\ caches \in ActivatedCaches
    /\ sy = SyIdle /\ qr = QrIdle /\ pm = PmIdle
    /\ sw = SwActivated
    /\ inst = [InstIdle EXCEPT !.pc = "done", !.outcome = "ok"]
    /\ act = [ActIdle EXCEPT !.pc = "done", !.outcome = "ok"]
    /\ fh = [f \in 1..MaxFetches |-> FhIdle]
    /\ mh = [m \in 1..MaxMessages |-> MhIdle]
    /\ history = [initial |-> DOMAIN caches, deleted |-> {}]
    /\ served = "v2"
    /\ sm = SmIdle

Fetch == \E f \in DOMAIN fh, request \in Requests : FetchEvent(f, request)

NextFetch == Fetch \/ CacheFirst \/ Publish

SpecFetch == InitFetch /\ [][NextFetch]_vars

\* ------------------------------------------- the strategies, called alone
StrategyNames == {"cacheFirst", "networkFirstWithCache", "staleWhileRevalidate", "networkFirst"}

\* the requests the strategies are called with: a dynamic-origin resource
\* and a same-origin page
StrategyRequests == {Request(URL_FONT, "GET", FALSE), Request(URL_PAGE, "GET", TRUE)}

StrategyKeys == {r.url : r \in StrategyRequests}

\* each of the two stores is absent, empty, or holds every request at v1
StrategyCaches ==
    {cs \in UNION {[names -> {EmptyEntries, Entries(StrategyKeys, "v1")}] : names \in SUBSET Gen2Stores} : TRUE}

\* strategy(request, cacheName) is called once the call before it has
\* returned (the revalidation of an earlier call may still be running)
DirectCall(f, strategy, request, cacheName) ==
    /\ fh[f].pc = "idle"
    /\ \A g \in 1..(f - 1) : fh[g].pc = "done"
    /\ fh' = [fh EXCEPT ![f] = Started("direct", strategy, request,
                                       IF strategy = "networkFirst" THEN NoName ELSE cacheName)]
    /\ UNCHANGED <<caches, sw, inst, act, mh, history, served, sm, sy, qr, pm>>

Call ==
    \E f \in DOMAIN fh, strategy \in StrategyNames, request \in StrategyRequests, cacheName \in Gen2Stores :
        DirectCall(f, strategy, request, cacheName)

InitStrategies ==
    /\ caches \in StrategyCaches
    /\ sy = SyIdle /\ qr = QrIdle /\ pm = PmIdle
    /\ sw = SwActivated
    /\ inst = [InstIdle EXCEPT !.pc = "done", !.outcome = "ok"]
    /\ act = [ActIdle EXCEPT !.pc = "done", !.outcome = "ok"]
    /\ fh = [f \in 1..MaxFetches |-> FhIdle]
    /\ mh = [m \in 1..MaxMessages |-> MhIdle]
    /\ history = [initial |-> DOMAIN caches, deleted |-> {}]
    /\ served = "v2"
    /\ sm = SmIdle

NextStrategies ==
    Call \/ CacheFirst \/ NetworkFirstWithCache \/ StaleWhileRevalidate \/ NetworkFirst \/ Publish

SpecStrategies == InitStrategies /\ [][NextStrategies]_vars


\* ================================================================== claims
\* the calls of handler h that settled, by kind
OpsOf(h, op) == {i \in DOMAIN h.ops : h.ops[i].op = op}
StorageOps(h) == {i \in DOMAIN h.ops : h.ops[i].op # "fetch"}

\* handleFetch was called for the request of handler f
ViaHandleFetch(f) == fh[f].via = "handleFetch"

\* C1: every request handleFetch serves whose URL is on a dynamic origin
\* and is not a manifest entry is served by networkFirstWithCache against
\* DYNAMIC_CACHE: the network is the first call made, and no other store
\* is written.
C1_DynamicOriginNetworkFirst ==
    \A f \in DOMAIN fh :
        (ViaHandleFetch(f) /\ IsDynamic(fh[f].request) /\ ~IsManifestEntry(fh[f].request))
        => /\ fh[f].strategy = "networkFirstWithCache"
           /\ fh[f].cacheName = DYNAMIC_CACHE
           /\ (fh[f].ops # <<>> => fh[f].ops[1].op = "fetch")
           /\ \A i \in OpsOf(fh[f], "put") : fh[f].ops[i].name = DYNAMIC_CACHE

\* the request matches none of the manifest, the dynamic origins, the own origin
IsExternal(request) ==
    ~IsManifestEntry(request) /\ ~IsDynamic(request) /\ ~IsSameOrigin(request)

\* C2: every request handleFetch serves that is no manifest entry, on no
\* dynamic origin and not same-origin is served by the network alone: no
\* store is opened, read or written while serving it.
C2_ExternalNetworkOnly ==
    \A f \in DOMAIN fh :
        (ViaHandleFetch(f) /\ IsExternal(fh[f].request))
        => /\ fh[f].strategy = "networkFirst"
           /\ StorageOps(fh[f]) = {}

\* no store holds an entry for the request
HeldNowhere(request) == \A name \in DOMAIN caches : request.url \notin DOMAIN caches[name]

\* handleFetch has answered the request of handler f while the network was
\* unreachable and no store held the request
AnsweredOffline(f) ==
    /\ ViaHandleFetch(f)
    /\ fh[f].pc = "done"
    /\ fh[f].net = NetworkError
    /\ fh[f].cached = NoResponse
    /\ HeldNowhere(fh[f].request)

\* C3: when the network is unreachable and no store holds the request, an
\* HTML navigation is answered with the offline page (status 200) and any
\* other request with an unavailable response (status 503).
C3_OfflineFallback ==
    \A f \in DOMAIN fh :
        AnsweredOffline(f)
        => IF fh[f].request.html THEN fh[f].response = OfflinePage
           ELSE fh[f].response.status = 503

\* C10: a same-origin request that is no manifest entry, once answered by
\* handleFetch from the store, got the stored copy, and a background fetch
\* that refreshes the stored entry was started.
C10_SameOriginStaleWhileRevalidate ==
    \A f \in DOMAIN fh :
        (/\ ViaHandleFetch(f)
         /\ IsSameOrigin(fh[f].request) /\ ~IsManifestEntry(fh[f].request)
         /\ fh[f].pc = "done" /\ fh[f].cached # NoResponse)
        => /\ fh[f].response = fh[f].cached
           /\ fh[f].bg # "none"


\* handler f takes the step in which its cache.match(request) settles
MatchSettles(f) == fh[f].pc = "cf_match" /\ fh'[f].pc # "cf_match"

\* the request of handler f is present in the store its cache object reads
KeyPresent(f) == fh[f].request.url \in DOMAIN HandleEntries(caches, fh[f].handle)

\* C4: when cacheFirst looks up a request whose key is present in the
\* static store, the call ends there: no network fetch is made, the stores
\* are left as they were, and the stored response is returned (the lookup
\* itself not failing).
C4_CacheFirstHit ==
    [][\A f \in DOMAIN fh :
          (fh[f].strategy = "cacheFirst" /\ fh[f].cacheName = STATIC_CACHE
           /\ MatchSettles(f) /\ KeyPresent(f))
          => /\ fh'[f].pc = "done"
             /\ OpsOf(fh'[f], "fetch") = {}
             /\ caches' = caches
             /\ (fh'[f].err = "none"
                 => /\ fh'[f].outcome = "returned"
                    /\ fh'[f].response = HandleEntries(caches, fh[f].handle)[fh[f].request.url])]_vars

\* cacheFirst has answered a request from the static store
C4_Witness ==
    \E f \in DOMAIN fh :
        /\ fh[f].strategy = "cacheFirst" /\ fh[f].cacheName = STATIC_CACHE
        /\ fh[f].pc = "done" /\ fh[f].cached # NoResponse
        /\ fh[f].response = fh[f].cached
        /\ fh[f].ops = <<Op("open", STATIC_CACHE), Op("match", STATIC_CACHE)>>

\* handler f takes the step in which its call returns or throws
CallEnds(f) == fh[f].pc # "done" /\ fh'[f].pc = "done"

\* a call of networkFirstWithCache on a dynamic-origin request against the
\* dynamic store
DynamicCall(f) ==
    /\ fh[f].strategy = "networkFirstWithCache"
    /\ fh[f].cacheName = DYNAMIC_CACHE
    /\ IsDynamic(fh[f].request)

\* the dynamic store holds response under the request of handler f
HeldInDynamic(cs, f, response) ==
    /\ DYNAMIC_CACHE \in DOMAIN cs
    /\ fh[f].request.url \in DOMAIN cs[DYNAMIC_CACHE]
    /\ cs[DYNAMIC_CACHE][fh[f].request.url] = response

\* C5 as stated: whenever the network answered such a call with any
\* response, the dynamic store holds the returned response when the call
\* returns.
C5_AnyResponseStored ==
    [][\A f \in DOMAIN fh :
          (DynamicCall(f) /\ CallEnds(f) /\ fh'[f].outcome = "returned"
           /\ fh'[f].net \notin {NoResponse, NetworkError})
          => HeldInDynamic(caches', f, fh'[f].response)]_vars

\* C5: whenever the network answered such a call with an ok response, the
\* dynamic store holds the returned response when the call returns.
C5_OkResponseStored ==
    [][\A f \in DOMAIN fh :
          (DynamicCall(f) /\ CallEnds(f) /\ fh'[f].outcome = "returned" /\ Ok(fh'[f].net))
          => HeldInDynamic(caches', f, fh'[f].response)]_vars

\* such a call has returned the ok response of the network, replacing an
\* older entry of the dynamic store
C5_Witness ==
    \E f \in DOMAIN fh :
        /\ DynamicCall(f)
        /\ fh[f].pc = "done" /\ fh[f].outcome = "returned"
        /\ Ok(fh[f].net) /\ fh[f].response = fh[f].net
        /\ fh[f].net.body # "v1"
        /\ HeldInDynamic(caches, f, fh[f].response)


\* the worker is installed while generation v2.0.0 is current: its stores exist
InstalledOverGen1 == Gen1Stores \subseteq history.initial

\* install and activate ran to their ends with no storage call failing
\* (an entry's failed put apart), and no message handler touched the stores
CleanActivation ==
    /\ act.pc = "done"
    /\ inst.outcome = "ok" /\ act.outcome = "ok"
    /\ \A m \in DOMAIN mh : mh[m].type \in {"none", "SKIP_WAITING"}

ScanzoStores(cs) == {n \in DOMAIN cs : StartsWithScanzo(n)}

C7_InstallDeletesNoGenerationStore ==
    \A d \in history.deleted :
        d.by = "install" => d.name \notin (Gen1Stores \cup Gen2Stores)

\* the manifest entries whose fetch returned an ok response
Fetched == {k \in DOMAIN inst.task : Ok(inst.task[k].response)}

\* install completes in this step
InstallCompletes == inst.pc # "done" /\ inst'.pc = "done"

\* C8 as stated: when install completes, every manifest entry whose fetch
\* returned an ok response is present in the static store.
C8_EveryFetchedEntryPresent ==
    [][InstallCompletes
       => \A k \in DOMAIN inst'.task :
             Ok(inst'.task[k].response)
             => /\ STATIC_CACHE \in DOMAIN caches'
                /\ InstallKey(k) \in DOMAIN caches'[STATIC_CACHE]]_vars

\* C8: no failure of an entry's fetch or put fails the install or stops
\* another entry: the prewarm ends only when every entry has ended, and
\* then with success; and every entry whose fetch returned an ok response
\* and whose put succeeded is in the static store, under its URL and with
\* that response, for as long as the store is not deleted.
C8_InstallBestEffort ==
    /\ (inst.outcome = "caught" => \A k \in DOMAIN inst.task : inst.task[k].pc = "idle")
    /\ (inst.pc = "done" /\ inst.outcome = "ok" => \A k \in DOMAIN inst.task : inst.task[k].pc = "done")
    /\ \A k \in DOMAIN inst.task :
          (inst.task[k].stored /\ inst.cache.live)
          => /\ STATIC_CACHE \in DOMAIN caches
             /\ InstallKey(k) \in DOMAIN caches[STATIC_CACHE]
             /\ caches[STATIC_CACHE][InstallKey(k)] = inst.task[k].response

\* install has completed with one entry unreachable, one entry fetched but
\* not stored, and one entry stored
C8_Witness ==
    /\ inst.pc = "done" /\ inst.outcome = "ok" /\ inst.cache.live
    /\ \E j, k, l \in DOMAIN inst.task :
          /\ ~Ok(inst.task[j].response)
          /\ Ok(inst.task[k].response) /\ ~inst.task[k].stored
          /\ inst.task[l].stored /\ InstallKey(l) \in DOMAIN caches[STATIC_CACHE]

\* message handler m answered a CACHE_STATUS request that arrived after an
\* install which found no stores and in which no storage call failed, no
\* CLEAR_CACHE being handled
StatusAfterCleanInstall(m) ==
    /\ mh[m].type = "CACHE_STATUS" /\ mh[m].pc = "done" /\ ~mh[m].caught
    /\ \A n \in DOMAIN mh : mh[n].type # "CLEAR_CACHE"
    /\ mh[m].at \in {"installed", "activating", "activated"}
    /\ history.initial = {}
    /\ inst.outcome = "ok"
    /\ \A k \in Fetched : inst.task[k].stored

\* C9: such a request is answered once, with a status whose entry for
\* STATIC_CACHE has as size the number of manifest entries that were
\* reachable and as urls exactly their URLs.
C9_StatusAfterInstall ==
    \A m \in DOMAIN mh :
        StatusAfterCleanInstall(m)
        => /\ Len(mh[m].replies) = 1
           /\ mh[m].replies[1].type = "CACHE_STATUS_RESPONSE"
           /\ STATIC_CACHE \in DOMAIN mh[m].replies[1].status
           /\ mh[m].replies[1].status[STATIC_CACHE].size = Cardinality(Fetched)
           /\ mh[m].replies[1].status[STATIC_CACHE].urls = {ResolveURL(STATIC_ASSETS[k]) : k \in Fetched}

\* such a request was answered after an install in which some but not all
\* manifest entries were reachable
C9_Witness ==
    \E m \in DOMAIN mh :
        /\ StatusAfterCleanInstall(m)
        /\ Cardinality(Fetched) = 2
        /\ mh[m].replies[1].status[STATIC_CACHE].size = 2


\* ------------------------------------ the activated worker's control channel
\* control messages delivered to the activated worker in one run
MaxControl == 2

\* the CacheStorage the activated worker may hold: nothing; the static
\* store; both stores and a foreign one
ControlCaches ==
    {Restrict(SeedCaches, names) : names \in {{}, {STATIC_CACHE}, Gen2Stores \cup {FOREIGN_CACHE}}}

InitControl ==
    /\ caches \in ControlCaches
    /\ sy = SyIdle /\ qr = QrIdle /\ pm = PmIdle
    /\ sw = SwActivated
    /\ inst = [InstIdle EXCEPT !.pc = "done", !.outcome = "ok"]
    /\ act = [ActIdle EXCEPT !.pc = "done", !.outcome = "ok"]
    /\ fh = [f \in 1..MaxFetches |-> FhIdle]
    /\ mh = [m \in 1..MaxControl |-> MhIdle]
    /\ history = [initial |-> DOMAIN caches, deleted |-> {}]
    /\ served = "v2"
    /\ sm = SmIdle

\* any message, well-formed or not, with or without a reply port
AnyMessage == \E m \in DOMAIN mh, type \in MessageTypes, port \in BOOLEAN : MessageEvent(m, type, port)

NextControl == AnyMessage \/ ClearAllCaches \/ GetCacheStatus

SpecControl == InitControl /\ [][NextControl]_vars


\* a response object: one the network or a store supplied, or one the
\* worker made up
IsResponse(response) == response.status >= 200 /\ response.status <= 599

\* C11: whatever the network and the storage do, every call of handleFetch
\* ends by resolving with a response object: it never rejects and never
\* resolves with undefined; and what it resolves with after a failure it
\* caught is the 503 response.
C11_HandleFetchResolves ==
    \A f \in DOMAIN fh :
        (ViaHandleFetch(f) /\ fh[f].pc = "done")
        => /\ fh[f].outcome \in {"returned", "fallback"}
           /\ IsResponse(fh[f].response)
           /\ (fh[f].err # "none" => fh[f].response.status = 503)

\* handleFetch has resolved after a storage failure, and after a network
\* failure
C11_Witness ==
    \E f, g \in DOMAIN fh :
        /\ ViaHandleFetch(f) /\ fh[f].pc = "done" /\ fh[f].err = "storage"
        /\ ViaHandleFetch(g) /\ fh[g].pc = "done" /\ fh[g].err = "network"
        /\ fh[f].response.status = 503 /\ fh[g].response.status = 503

\* the commands that are answered on the reply port
Answered == {"GET_VERSION", "CLEAR_CACHE", "CACHE_STATUS"}

\* the reply tells its reader that the command failed
CarriesFailureFlag(reply) == "success" \in DOMAIN reply /\ reply.success = FALSE

\* C12: a GET_VERSION, CLEAR_CACHE or CACHE_STATUS message that carries a
\* reply port is never answered twice, is answered once when its handler
\* has ended, and when a cache operation failed the reply carries a failure
\* flag.
C12_OneReplyWithFailureFlag ==
    \A m \in DOMAIN mh :
        (mh[m].type \in Answered /\ mh[m].port)
        => /\ Len(mh[m].replies) <= 1
           /\ (mh[m].pc = "done" => Len(mh[m].replies) = 1)
           /\ (mh[m].pc = "done" /\ mh[m].caught => CarriesFailureFlag(mh[m].replies[1]))

\* the message has an unknown command name, no data, or lacks the reply
\* port its command needs
Malformed(m) ==
    \/ mh[m].type \in {"UNKNOWN", "NODATA"}
    \/ mh[m].type \in Answered /\ ~mh[m].port

\* C13: a malformed message is ignored: its handler ends at once without
\* throwing, issues no storage call and posts nothing; and a well-formed
\* command that follows it is answered once.
C13_MalformedIgnored ==
    /\ \A m \in DOMAIN mh :
          Malformed(m) => /\ mh[m].pc = "done"
                          /\ ~mh[m].threw
                          /\ mh[m].del = {} /\ mh[m].replies = <<>>
    /\ \A m, n \in DOMAIN mh :
          (m < n /\ Malformed(m) /\ mh[n].type \in Answered /\ mh[n].port /\ mh[n].pc = "done")
          => Len(mh[n].replies) = 1

\* handler m has answered a CLEAR_CACHE message, no other message arriving
OnlyClear(m) ==
    /\ mh[m].type = "CLEAR_CACHE" /\ mh[m].port /\ mh[m].pc = "done"
    /\ \A n \in DOMAIN mh \ {m} : mh[n].pc = "idle"

\* C14: when CLEAR_CACHE is answered with success: true, nothing else
\* running, no scanzo- store exists; and when caches.keys or a
\* caches.delete failed, the one reply is success: false with the error's
\* message.
C14_ClearCache ==
    \A m \in DOMAIN mh :
        /\ (OnlyClear(m) /\ mh[m].replies = <<CacheCleared(TRUE)>>) => ScanzoStores(caches) = {}
        /\ (mh[m].type = "CLEAR_CACHE" /\ mh[m].port /\ mh[m].caught)
           => mh[m].replies = <<CacheCleared(FALSE)>>

\* CLEAR_CACHE was answered with success: true after deleting both stores of
\* the generation, the foreign store being left
C14_Witness ==
    \E m \in DOMAIN mh :
        /\ OnlyClear(m) /\ mh[m].replies = <<CacheCleared(TRUE)>>
        /\ {d.name : d \in history.deleted} = Gen2Stores
        /\ DOMAIN caches = {FOREIGN_CACHE}


\* ------------------------------------------- the page's StorageManager
InitHistory ==
    /\ caches = Restrict(SeedCaches, {})
    /\ sy = SyIdle /\ qr = QrIdle /\ pm = PmIdle
    /\ sw = SwParsed
    /\ inst = InstIdle
    /\ act = ActIdle
    /\ fh = [f \in 1..MaxFetches |-> FhIdle]
    /\ mh = [m \in 1..MaxMessages |-> MhIdle]
    /\ history = [initial |-> {}, deleted |-> {}]
    /\ served = "v2"
    /\ sm \in {[SmIdle EXCEPT !.ls = l, !.store = st] : l \in PriorLocal, st \in PriorStores}

InitSettles == \E available \in BOOLEAN : InitSettled(available)
Save == \E items \in HistoryArrays, first \in {"ok", "quota", "error"}, retry \in BOOLEAN :
            SaveHistory(items, first, retry)
SaveSettles == \E ok \in BOOLEAN : SaveToIndexedDB(ok)
Load == \E readable \in BOOLEAN : LoadHistory(readable)
LoadSettles == \E read \in {"success", "error", "threw"} : LoadFromIndexedDB(read)

NextHistory == InitSettles \/ Save \/ SaveSettles \/ Load \/ LoadSettles

SpecHistory == InitHistory /\ [][NextHistory]_vars

\* ---- mergeHistoryData called on any two arrays
InitMerge ==
    /\ caches = Restrict(SeedCaches, {})
    /\ sy = SyIdle /\ qr = QrIdle /\ pm = PmIdle
    /\ sw = SwParsed
    /\ inst = InstIdle
    /\ act = ActIdle
    /\ fh = [f \in 1..MaxFetches |-> FhIdle]
    /\ mh = [m \in 1..MaxMessages |-> MhIdle]
    /\ history = [initial |-> {}, deleted |-> {}]
    /\ served = "v2"
    /\ \E a, b \in ListsUpTo(MaxLen) : sm = [SmIdle EXCEPT !.merge = [NoMerge EXCEPT !.a = a, !.b = b]]

\* mergeHistoryData applied to the two arrays, both ways, and to the first
\* with itself
MergeCalls ==
    /\ ~sm.merge.done
    /\ LET a == sm.merge.a
           b == sm.merge.b
       IN sm' = [sm EXCEPT !.merge = [a |-> a, b |-> b, ab |-> MergeHistoryData(a, b),
                                      ba |-> MergeHistoryData(b, a),
                                      aa |-> MergeHistoryData(a, a), done |-> TRUE]]
    /\ UNCHANGED worker

NextMerge == MergeCalls

SpecMerge == InitMerge /\ [][NextMerge]_vars


\* C15: mergeHistoryData(A, B) and mergeHistoryData(B, A) hold the same
\* identifiers, those of A and of B; mergeHistoryData(A, A) holds exactly
\* the identifiers of A; and no result holds an identifier twice.
C15_MergeOnIdentity ==
    sm.merge.done
    => /\ IdsOf(sm.merge.ab) = IdsOf(sm.merge.ba)
       /\ IdsOf(sm.merge.ab) = IdsOf(sm.merge.a) \cup IdsOf(sm.merge.b)
       /\ IdsOf(sm.merge.aa) = IdsOf(sm.merge.a)
       /\ DistinctIds(sm.merge.ab) /\ DistinctIds(sm.merge.ba) /\ DistinctIds(sm.merge.aa)

\* two arrays were merged that share an identifier under different records,
\* the first holding an identifier twice
C15_Witness ==
    /\ sm.merge.done
    /\ ~DistinctIds(sm.merge.a)
    /\ \E i \in DOMAIN sm.merge.a, j \in DOMAIN sm.merge.b :
          sm.merge.a[i].id = sm.merge.b[j].id /\ sm.merge.a[i] # sm.merge.b[j]
    /\ sm.merge.ab # sm.merge.ba

\* loadHistory has returned
Loaded == sm.pc = "idle" /\ sm.loadResult = "returned"

\* loadHistory has returned after reading both backends
LoadedFromBoth == Loaded /\ sm.idbRead = "success" /\ sm.local = sm.ls

\* C16: a loadHistory that read both backends returns one record for every
\* identifier of either backend, and every record of the larger backend as
\* that backend holds it.
C16_LoadMergesBackends ==
    LoadedFromBoth
    => /\ IdsOf(sm.returned) = IdsOf(sm.ls) \cup {r.id : r \in sm.store}
       /\ DistinctIds(sm.returned)
       /\ \A r \in sm.store : \E i \in DOMAIN sm.returned : sm.returned[i] = r

\* the fast backend held 1 and 2, the larger 2 and 3: the records 1, 2, 3
\* were returned, 2 with its image
C16_Witness ==
    /\ LoadedFromBoth
    /\ IdsOf(sm.ls) = {1, 2} /\ {r.id : r \in sm.store} = {2, 3}
    /\ IdsOf(sm.returned) = {1, 2, 3}
    /\ \E i \in DOMAIN sm.returned : sm.returned[i] = Full(2)

SortedDescending(items) ==
    \A i, j \in DOMAIN items : i < j => items[i].timestamp >= items[j].timestamp

\* saveHistory and then loadHistory were called and have returned, no write
\* and no read failing
SavedThenLoaded ==
    /\ sm.ops = <<"save", "load">> /\ Loaded
    /\ sm.saveResult = "true"
    /\ sm.lsWrite \in {"full", "minimal"} /\ sm.idbWrite \in {"skipped", "complete"}
    /\ sm.idbRead \in {"skipped", "success"} /\ sm.local = sm.ls

\* C17: a loadHistory that follows a saveHistory of N records returns N
\* records, ordered by timestamp descending, whatever the backends held.
C17_SaveThenLoad ==
    SavedThenLoaded => /\ Len(sm.returned) = Len(sm.arg)
                       /\ SortedDescending(sm.returned)

\* the returned records are the saved ones, each without the fields given
ReturnedWithout(content, qrData) ==
    /\ Len(sm.returned) = Len(sm.arg)
    /\ SortedDescending(sm.returned)
    /\ \A i \in DOMAIN sm.arg : \E j \in DOMAIN sm.returned :
          /\ sm.returned[j].id = sm.arg[i].id
          /\ sm.returned[j].timestamp = sm.arg[i].timestamp
          /\ sm.returned[j].content = (IF content THEN Missing ELSE sm.arg[i].content)
          /\ sm.returned[j].qrData = (IF qrData THEN Missing ELSE sm.arg[i].qrData)

\* the write of the full records exceeded the quota and the retry succeeded
SavedMinimal == SavedThenLoaded /\ sm.lsWrite = "minimal"

\* C18 as stated: after a save that fell back to the reduced projection,
\* loadHistory returns as many records as were saved, each lacking its
\* rendered image only.
C18_OnlyImageMissing == SavedMinimal => ReturnedWithout(FALSE, TRUE)

\* C18: after such a save, with the larger backend not in use, loadHistory
\* returns as many records as were saved, each lacking its raw content and
\* its rendered image; with the larger backend written and read, it
\* returns the records as they were saved.
C18_ReducedProjection ==
    /\ (SavedMinimal /\ sm.idbWrite = "skipped" /\ sm.idbRead = "skipped") => ReturnedWithout(TRUE, TRUE)
    /\ (SavedMinimal /\ sm.idbWrite = "complete" /\ sm.idbRead = "success") => ReturnedWithout(FALSE, FALSE)

\* two records were saved in reduced projection and loaded from the fast
\* backend alone
C18_Witness ==
    /\ SavedMinimal /\ sm.idbWrite = "skipped" /\ sm.idbRead = "skipped"
    /\ Len(sm.arg) = 2
    /\ sm.returned = SortByTimestamp(MinimalData(sm.arg))

\* C19: a saveHistory whose write to the fast backend exceeded the quota
\* and whose retry failed too rejects.
C19_SaveSurfacesQuotaError ==
    (sm.lsWrite = "quota-rejected" /\ sm.saveResult # "none") => sm.saveResult = "rejected"

\* C20: loadHistory never throws, and when the larger backend is not used
\* or its read fails it returns what it read of the fast backend, sorted
\* by timestamp descending (nothing, when that could not be read either).
C20_LoadDegradesToFastBackend ==
    (sm.pc = "idle" /\ sm.loadResult # "none")
    => /\ sm.loadResult = "returned"
       /\ (sm.idbRead \in {"skipped", "error", "threw"} => sm.returned = SortByTimestamp(sm.local))


\* C23: whenever the clients are claimed, the activate handler has no
\* delete in flight and no superseded store exists; and a handler run that
\* caught an error (a failed delete among them) has claimed no client.
C23_ClaimAfterCleanup ==
    /\ sw.claimed => act.del = {} /\ ActivateObsolete(DOMAIN caches) = {}
    /\ act.outcome = "caught" => ~sw.claimed


\* a store is deleted in this step by clearAllCaches
ClearDeletes == \E d \in history'.deleted \ history.deleted : d.by = "clear"

\* C24: while the install or the activate handler is running, no step of
\* a CLEAR_CACHE deletes a store; so when install completes the static
\* store holds every entry the prewarm stored.
C24_ClearWaitsForTransition ==
    [][/\ sw.state \in {"installing", "activating"} => ~ClearDeletes
       /\ InstallCompletes
          => \A k \in DOMAIN inst'.task :
                inst'.task[k].stored
                => /\ STATIC_CACHE \in DOMAIN caches'
                   /\ InstallKey(k) \in DOMAIN caches'[STATIC_CACHE]]_vars


\* ------------------ the previous generation's fetches during activation
\* the stores when the new generation has installed: its static store,
\* alone or beside the previous generation's stores (an install whose
\* deletes failed)
SupersedeCaches ==
    {Restrict(SeedCaches, {STATIC_CACHE}), Restrict(SeedCaches, Gen1Stores \cup {STATIC_CACHE})}

InitSupersede ==
    /\ caches \in SupersedeCaches
    /\ sy = SyIdle /\ qr = QrIdle /\ pm = PmIdle
    /\ sw = [state |-> "installed", skipWaiting |-> TRUE, claimed |-> FALSE]
    /\ inst = [InstIdle EXCEPT !.pc = "done", !.outcome = "ok"]
    /\ act = ActIdle
    /\ fh = [f \in 1..MaxFetches |-> FhIdle]
    /\ mh = [m \in 1..MaxMessages |-> MhIdle]
    /\ history = [initial |-> DOMAIN caches, deleted |-> {}]
    /\ served = "v2"
    /\ sm = SmIdle

\* a fetch event of the previous generation's worker, which still controls
\* the clients until the new one is activated: its handleFetch calls
\* cacheFirst with that generation's static store
SupersededFetch ==
    \E f \in DOMAIN fh, request \in StrategyRequests :
        /\ sw.state # "activated"
        /\ fh[f].pc = "idle"
        /\ \A g \in 1..(f - 1) : fh[g].pc # "idle"
        /\ fh' = [fh EXCEPT ![f] = Started("previous", "cacheFirst", request, OLD_STATIC_CACHE)]
        /\ UNCHANGED <<caches, sw, inst, act, mh, history, served, sm, sy, qr, pm>>

NextSupersede == SupersededFetch \/ CacheFirst \/ Activate

SpecSupersede == InitSupersede /\ [][NextSupersede]_vars

\* C25: once the activation has completed, no store of the previous
\* generation exists, whatever work of that generation is still in flight.
C25_NoSupersededStoreAfterActivation ==
    (act.pc = "done" /\ act.outcome = "ok") => DOMAIN caches \cap Gen1Stores = {}


\* the entries of a store, none when the store does not exist
EntriesIn(cs, name) == IF name \in DOMAIN cs THEN cs[name] ELSE EmptyEntries

\* the call of handler f returns in this step
Returns(f) == fh[f].pc # "done" /\ fh'[f].pc = "done"

Ended(strategy) == {f \in DOMAIN fh : fh[f].strategy = strategy /\ fh[f].pc = "done"}

\* the network answered the handler's fetch
GotResponse(h) == h.net # NoResponse /\ h.net # NetworkError

\* C27: a networkFirstWithCache call whose fetch failed returns the stored
\* copy when the store holds the request and throws when it does not; a
\* call whose fetch returned a response never returns another one.
C27_NetworkFirstFallback ==
    \A f \in Ended("networkFirstWithCache") :
        LET h == fh[f]
        IN /\ h.net = NetworkError
              => /\ h.cached # NoResponse => h.outcome = "returned" /\ h.response = h.cached
                 /\ h.cached = NoResponse => h.outcome = "thrown"
           /\ (GotResponse(h) /\ h.outcome = "returned") => h.response = h.net

\* C28: a staleWhileRevalidate call that found a stored response returns
\* it; one that found none returns what the network answered, and throws
\* when the fetch failed; each call issues one fetch.
C28_StaleWhileRevalidate ==
    \A f \in Ended("staleWhileRevalidate") :
        LET h == fh[f]
        IN /\ h.cached # NoResponse => h.outcome = "returned" /\ h.response = h.cached
           /\ (h.cached = NoResponse /\ GotResponse(h)) => h.outcome = "returned" /\ h.response = h.net
           /\ (h.cached = NoResponse /\ h.net = NetworkError) => h.outcome = "thrown"
           /\ h.bg = "done" => Cardinality(OpsOf(h, "fetch")) = 1

\* the request is not a GET, or its URL has the chrome-extension scheme
NotHandled(request) == request.method # "GET" \/ request.url = URL_EXTENSION

\* C29: a fetch event whose request is not a GET, or has the extension
\* scheme, is passed: no strategy runs for it, no response is given and no
\* storage call is made, and the step leaves the stores as they were.
C29_PassThrough ==
    [][\A f \in DOMAIN fh :
          (fh'[f].pc # "idle" /\ NotHandled(fh'[f].request))
          => /\ fh'[f].outcome = "passed" /\ fh'[f].strategy = "none"
             /\ fh'[f].response = NoResponse /\ fh'[f].ops = <<>> /\ fh'[f].handle = NoHandle
             /\ fh[f].pc = "idle" => caches' = caches]_vars

\* a POST and an extension request were passed
C29_Witness ==
    \E f, g \in DOMAIN fh :
        /\ fh[f].outcome = "passed" /\ fh[f].request.method = "POST"
        /\ fh[g].outcome = "passed" /\ fh[g].request.url = URL_EXTENSION


\* ------------------------------------------- the page and its history
\* how often the page is opened in one run
MaxStarts == 2

\* the arrays an earlier visit saved, both writes complete
AppPrior == {<<>>, <<Full(1)>>, <<Full(1), Full(2)>>}

InitApp ==
    /\ caches = Restrict(SeedCaches, {})
    /\ sy = SyIdle /\ qr = QrIdle /\ pm = PmIdle
    /\ sw = SwParsed
    /\ inst = InstIdle
    /\ act = ActIdle
    /\ fh = [f \in 1..MaxFetches |-> FhIdle]
    /\ mh = [m \in 1..MaxMessages |-> MhIdle]
    /\ history = [initial |-> {}, deleted |-> {}]
    /\ served = "v2"
    /\ \E items \in AppPrior :
          sm = [SmIdle EXCEPT !.ls = DataToStore(items), !.store = {items[i] : i \in DOMAIN items},
                              !.imaged = IdsOf(items)]

\* the page is opened: a new StorageManager, whose init() is started and
\* not awaited, and this.history = await loadHistory(), which finds the
\* database not yet open and returns the sorted localData
AppInit(readable) ==
    /\ sm.pc = "idle"
    /\ sm.starts < MaxStarts
    /\ LET localData == IF readable THEN sm.ls ELSE <<>>
           loaded == SortByTimestamp(localData)
       IN sm' = [SmIdle EXCEPT !.ls = sm.ls, !.store = sm.store, !.starts = sm.starts + 1,
                               !.deleted = sm.deleted, !.imaged = sm.imaged, !.now = sm.now, !.calls = sm.calls, !.txs = sm.txs,
                               !.local = localData, !.idbRead = "skipped",
                               !.loadResult = "returned", !.returned = loaded, !.app = loaded]
    /\ UNCHANGED worker

\* the page may call saveHistory
AppIdle == sm.starts > 0 /\ sm.pc = "idle" /\ Len(sm.ops) < MaxOps

\* the identifiers of records that exist or were deleted
UsedIds == IdsOf(sm.app) \cup IdsOf(sm.ls) \cup {r.id : r \in sm.store} \cup sm.deleted

\* saveToHistory(): this.history.unshift(item); saveHistory(this.history)
AppSaveToHistory(id, first, retry) ==
    /\ AppIdle
    /\ id \notin UsedIds
    /\ LET items == <<Full(id)>> \o sm.app
       IN sm' = [SaveHistoryCalled(items, first, retry) EXCEPT !.app = items]
    /\ UNCHANGED worker

\* this.history.filter(h => h.id !== id)
WithoutId(items, id) == SelectSeq(items, LAMBDA h : h.id # id)

\* deleteHistoryItem(id), confirmed
AppDeleteHistoryItem(id, first, retry) ==
    /\ AppIdle
    /\ id \in IdsOf(sm.app)
    /\ LET items == WithoutId(sm.app, id)
       IN sm' = [SaveHistoryCalled(items, first, retry) EXCEPT !.app = items, !.deleted = @ \cup {id}]
    /\ UNCHANGED worker

\* clearHistory(), confirmed
AppClearHistory(first, retry) ==
    /\ AppIdle
    /\ sm' = [SaveHistoryCalled(<<>>, first, retry) EXCEPT !.app = <<>>, !.deleted = @ \cup IdsOf(sm.app)]
    /\ UNCHANGED worker

AppStart == \E readable \in BOOLEAN : AppInit(readable)
AppSave == \E id \in Ids, first \in {"ok", "quota", "error"}, retry \in BOOLEAN : AppSaveToHistory(id, first, retry)
AppDelete == \E id \in Ids, first \in {"ok", "quota", "error"}, retry \in BOOLEAN : AppDeleteHistoryItem(id, first, retry)
AppClear == \E first \in {"ok", "quota", "error"}, retry \in BOOLEAN : AppClearHistory(first, retry)
\* exportHistory(): the StorageManager's loadHistory, its result not kept
AppExport == sm.starts > 0 /\ Load
AppSettles == sm.starts > 0 /\ (InitSettles \/ SaveSettles \/ LoadSettles)

NextApp == AppStart \/ AppSave \/ AppDelete \/ AppClear \/ AppExport \/ AppSettles

SpecApp == InitApp /\ [][NextApp]_vars

\* a loadHistory that read the larger backend has returned
LoadedWithLarger == Loaded /\ sm.idbRead = "success"

\* C21: a record the larger backend held with its image, and which the
\* page lists and has not deleted, is returned with that image by every
\* loadHistory that reads the larger backend.
C21_ImagedRecordAuthoritative ==
    LoadedWithLarger
    => \A id \in (sm.imaged \cap IdsOf(sm.app)) \ sm.deleted :
          \E i \in DOMAIN sm.returned : sm.returned[i] = Full(id)

\* C22: once deleteHistoryItem or clearHistory has completed, no
\* loadHistory returns a record with a deleted identifier.
C22_DeletedStaysDeleted ==
    Loaded => IdsOf(sm.returned) \cap sm.deleted = {}


\* the write of the last saveHistory to the fast backend failed
FastWriteFailed == sm.lsWrite \in {"rejected", "quota-rejected"}

\* C30: when both writes of a saveHistory have settled, a failed write to
\* the fast backend leaves the larger one holding exactly the saved
\* records; a failed write to the larger backend leaves the fast one
\* holding the saved records and the larger one holding what it held.
C30_WritesIndependent ==
    [][(sm.pc = "save_idb" /\ sm'.pc = "idle")
       => /\ (FastWriteFailed /\ sm'.idbWrite = "complete")
             => sm'.store = {sm.arg[i] : i \in DOMAIN sm.arg}
          /\ sm'.idbWrite = "rejected"
             => /\ sm'.store = sm.store
                /\ ~FastWriteFailed
                   => /\ Len(sm'.ls) = Len(sm.arg)
                      /\ \A i \in DOMAIN sm.arg : sm'.ls[i].id = sm.arg[i].id]_vars

\* the fast backend was written and the larger one, which held other
\* records, was not
C30_Witness ==
    /\ sm.pc = "idle" /\ sm.idbWrite = "rejected" /\ sm.lsWrite = "full"
    /\ sm.arg # <<>> /\ sm.store # {} /\ sm.store # {sm.arg[i] : i \in DOMAIN sm.arg}
    /\ IdsOf(sm.ls) = IdsOf(sm.arg)


\* C31: whenever the larger backend exists, a loadHistory that has
\* returned with no read failing holds every identifier the larger backend
\* stores, the load made before init() has settled included.
C31_LoadReadsLargerBackend ==
    (Loaded /\ sm.idb = "ready" /\ sm.idbRead \in {"skipped", "success"})
    => {r.id : r \in sm.store} \subseteq IdsOf(sm.returned)


\* ------------------------------------ identifiers taken from the clock
\* the record saveResult builds: a scanned item has no rendered image
Scanned(id) == [Full(id) EXCEPT !.qrData = Missing]

\* the page is open with an empty history, its database still opening
InitClock ==
    /\ caches = Restrict(SeedCaches, {})
    /\ sy = SyIdle /\ qr = QrIdle /\ pm = PmIdle
    /\ sw = SwParsed
    /\ inst = InstIdle
    /\ act = ActIdle
    /\ fh = [f \in 1..MaxFetches |-> FhIdle]
    /\ mh = [m \in 1..MaxMessages |-> MhIdle]
    /\ history = [initial |-> {}, deleted |-> {}]
    /\ served = "v2"
    /\ sm = [SmIdle EXCEPT !.starts = 1, !.idbRead = "skipped", !.loadResult = "returned"]

\* a millisecond passes
Tick ==
    /\ sm.now < MaxId
    /\ sm' = [sm EXCEPT !.now = @ + 1]
    /\ UNCHANGED worker

\* saveToHistory() or saveResult(): id: Date.now(), unshift, saveHistory
SaveAtClock(item, first, retry) ==
    /\ AppIdle
    /\ item.id = sm.now
    /\ LET items == <<item>> \o sm.app
       IN sm' = [SaveHistoryCalled(items, first, retry) EXCEPT !.app = items]
    /\ UNCHANGED worker

ClockSave ==
    \E item \in {Full(sm.now), Scanned(sm.now)}, first \in {"ok", "quota", "error"}, retry \in BOOLEAN :
        SaveAtClock(item, first, retry)

NextClock == Tick \/ ClockSave \/ InitSettles \/ SaveSettles

SpecClock == InitClock /\ [][NextClock]_vars

\* C32: this.history, the fast backend and the larger backend never hold
\* two records with one identifier.
C32_IdentifiersUnique ==
    /\ DistinctIds(sm.app)
    /\ DistinctIds(sm.ls)
    /\ \A r1, r2 \in sm.store : r1.id = r2.id => r1 = r2


\* C34: no step made while a CACHE_STATUS message is handled creates,
\* deletes or changes a store, in every interleaving with the other
\* control messages.
C34_CacheStatusReadOnly ==
    [][(\E m \in DOMAIN mh : mh[m].type = "CACHE_STATUS" /\ mh'[m] # mh[m]) => caches' = caches]_vars


\* ------------------------------------------- sync and periodicsync events
\* sync and periodicsync events delivered to the worker in one run
MaxSyncs == 1

\* the criticalUrls of updateCachePeriodically, as Cache.put keys them
CriticalKeys == {ResolveURL(<<"./">>), ResolveURL(<<"./", "index.html">>), ResolveURL(<<"./", "styles.css">>)}

\* the handler of an event: a tag the listener does not know starts nothing
SyncStarted(tag, known) ==
    IF tag = known
    THEN [SyIdle EXCEPT !.pc = "open", !.tag = tag, !.events = sy.events + 1,
                        !.stored = sy.stored, !.skipped = sy.skipped]
    ELSE [sy EXCEPT !.pc = "done", !.tag = tag, !.events = @ + 1]

\* the sync listener: event.tag === 'background-sync' calls handleBackgroundSync
SyncEvent(tag) ==
    /\ sy.pc \in {"idle", "done"}
    /\ sy.events < MaxSyncs
    /\ sy' = SyncStarted(tag, "background-sync")
    /\ UNCHANGED <<caches, sw, inst, act, fh, mh, history, served, sm, qr, pm>>

\* the periodicsync listener: event.tag === 'update-cache' calls
\* updateCachePeriodically
PeriodicSyncEvent(tag) ==
    /\ sy.pc \in {"idle", "done"}
    /\ sy.events < MaxSyncs
    /\ sy' = SyncStarted(tag, "update-cache")
    /\ UNCHANGED <<caches, sw, inst, act, fh, mh, history, served, sm, qr, pm>>

\* the loop of either function goes to its next request, or the function ends
SyncNext(h) == IF h.todo = {} THEN [h EXCEPT !.pc = "done"] ELSE [h EXCEPT !.pc = "fetch"]

\* caches.open(STATIC_CACHE) settles; its failure is caught by the outer
\* catch, which ends the function; updateCachePeriodically goes on with its
\* fixed list, handleBackgroundSync asks for the store's keys
SyncOpen(ok) ==
    /\ sy.pc = "open"
    /\ IF ok
       THEN /\ caches' = OpenStore(caches, STATIC_CACHE)
            /\ sy' = IF sy.tag = "update-cache"
                     THEN SyncNext([sy EXCEPT !.handle = LiveHandle(STATIC_CACHE), !.todo = CriticalKeys])
                     ELSE [sy EXCEPT !.pc = "keys", !.handle = LiveHandle(STATIC_CACHE)]
       ELSE /\ caches' = caches
            /\ sy' = [sy EXCEPT !.pc = "done"]
    /\ UNCHANGED <<sw, inst, act, fh, mh, history, served, sm, qr, pm>>

\* cache.keys() of handleBackgroundSync settles
SyncKeys(ok) ==
    /\ sy.pc = "keys"
    /\ sy' = IF ok THEN SyncNext([sy EXCEPT !.todo = DOMAIN HandleEntries(caches, sy.handle)])
             ELSE [sy EXCEPT !.pc = "done"]
    /\ UNCHANGED <<caches, sw, inst, act, fh, mh, history, served, sm, qr, pm>>

\* a refresh that stores whatever the network answers
SyncStoresAll(response) == TRUE

\* does the refresh store this network response?
SyncCaches(response) == Ok(response)

\* fetch of the next request settles (the requests are taken in any order):
\* an ok response goes to cache.put, another one is dropped, a rejection is
\* caught and logged
SyncFetch(url, outcome) ==
    /\ sy.pc = "fetch"
    /\ url \in sy.todo
    /\ sy' = IF outcome # NetworkError /\ SyncCaches(outcome)
             THEN [sy EXCEPT !.pc = "put", !.cur = url, !.net = outcome, !.todo = @ \ {url}]
             ELSE SyncNext([sy EXCEPT !.todo = @ \ {url}, !.skipped = TRUE])
    /\ UNCHANGED <<caches, sw, inst, act, fh, mh, history, served, sm, qr, pm>>

\* cache.put(request, response) settles; its failure is caught and logged
SyncPut(ok) ==
    /\ sy.pc = "put"
    /\ IF ok
       THEN /\ caches' = HandlePutStores(caches, sy.handle, sy.cur, sy.net)
            /\ sy' = SyncNext([sy EXCEPT !.handle = HandlePutHandle(@, sy.cur, sy.net), !.stored = TRUE])
       ELSE /\ caches' = caches
            /\ sy' = SyncNext(sy)
    /\ UNCHANGED <<sw, inst, act, fh, mh, history, served, sm, qr, pm>>

SyncTags == {"background-sync", "update-cache"}

Sync == \E tag \in SyncTags : SyncEvent(tag)

PeriodicSync == \E tag \in SyncTags : PeriodicSyncEvent(tag)

HandleSync ==
    \/ \E ok \in BOOLEAN : SyncOpen(ok)
    \/ \E ok \in BOOLEAN : SyncKeys(ok)
    \/ \E url \in sy.todo, outcome \in FetchOutcomes(served) : SyncFetch(url, outcome)
    \/ \E ok \in BOOLEAN : SyncPut(ok)

\* no operation of the worker is running
Quiet ==
    /\ inst.pc \in {"idle", "done"}
    /\ \A f \in DOMAIN fh : fh[f].pc \in {"idle", "done"} /\ fh[f].bg \notin {"fetch", "put"}
    /\ sy.pc \in {"idle", "done"}

\* the operations that write stores, one after the other and in any order:
\* the install, a call of one of the four strategies, a background sync or
\* a periodic update; the install starts on no store or on the stores of
\* this generation beside a foreign one
InitStores ==
    /\ sy = SyIdle /\ qr = QrIdle /\ pm = PmIdle
    /\ caches \in {Restrict(SeedCaches, names) : names \in {{}, Gen2Stores \cup {FOREIGN_CACHE}}}
    /\ sw = SwParsed
    /\ inst = InstIdle
    /\ act = ActIdle
    /\ fh = [f \in 1..MaxFetches |-> FhIdle]
    /\ mh = [m \in 1..MaxMessages |-> MhIdle]
    /\ history = [initial |-> DOMAIN caches, deleted |-> {}]
    /\ served = "v2"
    /\ sm = SmIdle

StoresInstall == (inst.pc # "idle" \/ Quiet) /\ Install
StoresCall ==
    /\ Quiet
    /\ \E strategy \in StrategyNames, request \in StrategyRequests, cacheName \in Gen2Stores :
           DirectCall(1, strategy, request, cacheName)
StoresSync == Quiet /\ Sync
StoresPeriodicSync == Quiet /\ PeriodicSync

NextStores ==
    \/ StoresInstall
    \/ StoresCall \/ CacheFirst \/ NetworkFirstWithCache \/ StaleWhileRevalidate \/ NetworkFirst
    \/ StoresSync \/ StoresPeriodicSync \/ HandleSync

SpecStores == InitStores /\ [][NextStores]_vars

\* C33: every entry of every store holds an ok response, whatever the
\* install, the strategies, the background sync and the periodic update
\* were answered by the network.
C33_EntriesOk ==
    \A n \in DOMAIN caches : \A u \in DOMAIN caches[n] : Ok(caches[n][u])

\* a background sync or a periodic update has ended that stored a response
\* and dropped another one
C33_Witness ==
    /\ sy.pc = "done"
    /\ sy.stored
    /\ sy.skipped
    /\ \E f \in DOMAIN fh : fh[f].pc = "done" /\ fh[f].net = NotFound


\* ------------------------------------------- saveHistory calls that overlap
\* saveHistory(historyArray) runs to its await in one piece: setItem is
\* synchronous, and the transaction is created and its clear() requested
\* before Promise.allSettled is awaited
OverlapSaveHistory(items, first, retry) ==
    /\ Len(sm.calls) < MaxOps
    /\ LET w == SaveToLocalStorage(items, first, retry)
           ready == sm.idb = "ready"
           call == [items |-> items, lsWrite |-> w.settled,
                    idbWrite |-> IF ready THEN "pending" ELSE "skipped", done |-> FALSE,
                    overlaps |-> \E j \in DOMAIN sm.calls : ~sm.calls[j].done]
       IN sm' = [sm EXCEPT !.ls = w.ls, !.calls = Append(@, call),
                           !.txs = IF ready THEN Append(@, Len(sm.calls) + 1) ELSE @]
    /\ UNCHANGED worker

\* a transaction that adds to the store what the one before it left there
TransactionKeepsEarlier(ok) ==
    /\ sm.txs # <<>>
    /\ LET k == Head(sm.txs)
           items == sm.calls[k].items
       IN /\ ok => DistinctIds(items)
          /\ sm' = [sm EXCEPT !.store = IF ok THEN @ \cup {items[i] : i \in DOMAIN items} ELSE @,
                              !.calls[k].idbWrite = IF ok THEN "complete" ELSE "rejected",
                              !.txs = Tail(@)]
    /\ UNCHANGED worker

\* the oldest readwrite transaction on the object store finishes (the
\* transactions of one store run in the order of their creation): it
\* completes with the store cleared and its items added, or is rolled back
TransactionSettles(ok) ==
    /\ sm.txs # <<>>
    /\ LET k == Head(sm.txs)
           items == sm.calls[k].items
       IN /\ ok => DistinctIds(items)
          /\ sm' = [sm EXCEPT !.store = IF ok THEN {items[i] : i \in DOMAIN items} ELSE @,
                              !.calls[k].idbWrite = IF ok THEN "complete" ELSE "rejected",
                              !.txs = Tail(@)]
    /\ UNCHANGED worker

\* Promise.allSettled of call k is fulfilled and saveHistory returns true
SaveHistoryReturns(k) ==
    /\ k \in DOMAIN sm.calls
    /\ ~sm.calls[k].done
    /\ sm.calls[k].idbWrite # "pending"
    /\ sm' = [sm EXCEPT !.calls[k].done = TRUE]
    /\ UNCHANGED worker

OverlapSave ==
    \E items \in HistoryArrays, first \in {"ok", "quota", "error"}, retry \in BOOLEAN :
        OverlapSaveHistory(items, first, retry)
OverlapSettles == \E ok \in BOOLEAN : TransactionSettles(ok)
OverlapReturns == \E k \in 1..MaxOps : SaveHistoryReturns(k)

NextOverlap == InitSettles \/ OverlapSave \/ OverlapSettles \/ OverlapReturns

SpecOverlap == InitHistory /\ [][NextOverlap]_vars

\* no write of call c failed
NoWriteFailed(c) == c.lsWrite \in {"full", "minimal"} /\ c.idbWrite # "rejected"

\* two saveHistory calls, the second issued before the first returned, have
\* both returned with no write failed, the last one having written both
\* backends
OverlappedSaves ==
    /\ Len(sm.calls) = 2
    /\ sm.calls[2].overlaps
    /\ \A k \in DOMAIN sm.calls : sm.calls[k].done /\ NoWriteFailed(sm.calls[k])
    /\ sm.calls[2].idbWrite = "complete"

Word == 2^16
Zero32 == [hi |-> 0, lo |-> 0]

\* hash << 5
Shl5(h) == [hi |-> (h.hi * 32 + (h.lo * 32) \div Word) % Word, lo |-> (h.lo * 32) % Word]

\* a - b and a + char, truncated to 32 bits as `hash & hash` does
Sub32(a, b) ==
    LET lo == a.lo - b.lo
    IN [hi |-> (a.hi - b.hi - (IF lo < 0 THEN 1 ELSE 0)) % Word, lo |-> lo % Word]
Add32(a, char) ==
    LET lo == a.lo + char
    IN [hi |-> (a.hi + lo \div Word) % Word, lo |-> lo % Word]

\* hash = ((hash << 5) - hash) + char; hash = hash & hash
HashStep(hash, char) == Add32(Sub32(Shl5(hash), hash), char)

RECURSIVE HashFrom(_, _)
HashFrom(hash, input) ==
    IF input = <<>> THEN hash ELSE HashFrom(HashStep(hash, Head(input)), Tail(input))

\* Number.prototype.toString(16) of a 32-bit integer: a minus sign and the
\* digits of the magnitude for a negative value
HexDigit(d) == IF d < 10 THEN 48 + d ELSE 87 + d
RECURSIVE Digits16(_)
Digits16(n) == IF n < 16 THEN <<HexDigit(n)>> ELSE Append(Digits16(n \div 16), HexDigit(n % 16))
Pad4(digits) == [i \in 1..(4 - Len(digits)) |-> 48] \o digits
Hex32(h) == IF h.hi = 0 THEN Digits16(h.lo) ELSE Digits16(h.hi) \o Pad4(Digits16(h.lo))
ToString16(h) == IF h.hi >= Word \div 2 THEN <<45>> \o Hex32(Sub32(Zero32, h)) ELSE Hex32(h)

\* hashPassword(input)
HashPassword(input) == ToString16(HashFrom(Zero32, input))

\* JSON.stringify and JSON.parse of an object: the text keeps the strings'
\* characters (JSON.stringify escapes no character above U+007F)
Stringify(value) == [json |-> value]
Parse(text) == text.json
\* the characters of a text that may lie outside Latin-1
WideChars(value) ==
    IF "content" \in DOMAIN value
    THEN {value.content[i] : i \in DOMAIN value.content} \cup {value.salt[i] : i \in DOMAIN value.salt}
    ELSE {}

\* btoa(text) throws InvalidCharacterError on a character above U+00FF
Threw == [threw |-> TRUE]
Btoa(text) == IF \E ch \in WideChars(text.json) : ch > 255 THEN Threw ELSE [base64 |-> text]
Atob(encoded) == encoded.base64

\* encryptContent(content, password) with the salt Math.random gave
EncryptContent(content, password, timestamp, salt) ==
    LET data == [content |-> content, timestamp |-> timestamp, salt |-> salt]
        inner == Btoa(Stringify(data))
    IN IF inner = Threw THEN Threw
       ELSE Btoa(Stringify([data |-> inner, hash |-> HashPassword(password \o salt)]))

\* decryptContent(encrypted, password): every error becomes the one error
Failed == [ok |-> FALSE, content |-> <<>>]
DecryptContent(encrypted, password) ==
    LET parsed == Parse(Atob(encrypted))
        data == Parse(Atob(parsed.data))
        expectedHash == HashPassword(password \o data.salt)
    IN IF parsed.hash # expectedHash THEN Failed ELSE [ok |-> TRUE, content |-> data.content]

\* the longest password
MaxPassword == 2

RECURSIVE StringsOver(_, _)
StringsOver(chars, n) ==
    IF n = 0 THEN {<<>>}
    ELSE LET shorter == StringsOver(chars, n - 1)
         IN shorter \cup {Append(str, ch) : str \in {x \in shorter : Len(x) = n - 1}, ch \in chars}

\* the contents: empty, ASCII, Latin-1, and with a character beyond Latin-1
Contents == {<<>>, <<65>>, <<233>>, <<8364>>, <<65, 8364>>}
\* the passwords: A, B, a and U+FFFF, one to MaxPassword characters
Passwords == StringsOver({65, 66, 97, 65535}, MaxPassword) \ {<<>>}
\* Math.random().toString(36).substring(2, 15)
Salts == {<<107>>, <<55, 122, 113>>}

InitPrivate ==
    /\ sy = SyIdle /\ qr = QrIdle
    /\ caches = Restrict(SeedCaches, {})
    /\ sw = SwParsed
    /\ inst = InstIdle
    /\ act = ActIdle
    /\ fh = [f \in 1..MaxFetches |-> FhIdle]
    /\ mh = [m \in 1..MaxMessages |-> MhIdle]
    /\ history = [initial |-> {}, deleted |-> {}]
    /\ served = "v2"
    /\ sm = SmIdle
    /\ \E content \in Contents, password \in Passwords :
          pm = [PmIdle EXCEPT !.content = content, !.password = password]

\* the private QR code is generated
Encrypt(salt) ==
    /\ pm.pc = "idle"
    /\ LET encrypted == EncryptContent(pm.content, pm.password, sm.now, salt)
       IN pm' = [pm EXCEPT !.pc = IF encrypted = Threw THEN "threw" ELSE "encrypted",
                           !.salt = salt, !.encrypted = encrypted]
    /\ UNCHANGED <<caches, sw, inst, act, fh, mh, history, served, sm, sy, qr>>

\* an unlock attempt with a password
Decrypt(password) ==
    /\ pm.pc = "encrypted"
    /\ pm' = [pm EXCEPT !.pc = "decrypted", !.attempt = password,
                        !.result = DecryptContent(pm.encrypted, password)]
    /\ UNCHANGED <<caches, sw, inst, act, fh, mh, history, served, sm, sy, qr>>

Encrypts == \E salt \in Salts : Encrypt(salt)
Decrypts == \E password \in Passwords : Decrypt(password)

NextPrivate == Encrypts \/ Decrypts

SpecPrivate == InitPrivate /\ [][NextPrivate]_vars

\* C38: encryptContent returns for every content and password, the
\* encrypting password gets the content back, and every other password
\* makes decryptContent fail.
C38_UnlockOnlyWithPassword ==
    /\ pm.pc # "threw"
    /\ pm.pc = "decrypted" =>
          IF pm.attempt = pm.password
          THEN pm.result = [ok |-> TRUE, content |-> pm.content]
          ELSE pm.result = Failed


\* ------------------------------------------------------------- QR scanner
\* detectQR callbacks scheduled at one time
MaxPending == 3
\* codes found in one run
MaxFound == 2

\* what a run of detectQR meets: the video without dimensions yet, a frame
\* without a code, a frame with a code, a frame whose processing throws
Frames == {"unready", "none", "code", "throws"}

\* handleQRFound(qrCode): scanning ends and scanCallback is called
HandleQRFound(q) == [q EXCEPT !.isScanning = FALSE, !.found = @ + 1]

\* requestAnimationFrame(detectQR) or setTimeout(detectQR, 100)
Schedule(q) == [q EXCEPT !.pending = @ + 1]

\* one run of detectQR
DetectQR(q, frame) ==
    IF ~q.isScanning \/ frame = "unready"
    THEN IF q.isScanning THEN Schedule(q) ELSE q
    ELSE IF frame = "code" THEN HandleQRFound(q) ELSE Schedule(q)

\* startDetection(): detectQR is called at once
StartDetection(q, frame) == IF ~q.isScanning \/ q.stream = 0 THEN q ELSE DetectQR(q, frame)

\* stopCamera(): the tracks of this.stream are stopped
StopCamera(q) == [q EXCEPT !.live = @ \ {q.stream}, !.stream = 0, !.isScanning = FALSE]

\* pauseScanning() and resumeScanning()
PauseScanning(q) == [q EXCEPT !.isScanning = FALSE]
ResumeScanning(q, frame) ==
    IF q.stream # 0 THEN StartDetection([q EXCEPT !.isScanning = TRUE], frame) ELSE q

\* the next startCamera call
NextStart == CHOOSE c \in DOMAIN qr.sc : qr.sc[c] = "idle" /\ \A b \in 1..(c - 1) : qr.sc[b] # "idle"
CanStart == \E c \in DOMAIN qr.sc : qr.sc[c] = "idle"

\* startCamera() up to getUserMedia: without navigator.mediaDevices it throws
StartCamera(q, by) ==
    [q EXCEPT !.sc[NextStart] = IF q.supported THEN "media" ELSE "failed", !.by[NextStart] = by]

\* the counters stay within their bounds
Bounded(q) == q.pending <= MaxPending /\ q.found <= MaxFound

page == <<caches, sw, inst, act, fh, mh, history, served, sm, sy, pm>>

\* the page calls startCamera()
StartCameraCalled ==
    /\ CanStart
    /\ qr.restarts = 0
    /\ qr' = StartCamera(qr, "page")
    /\ UNCHANGED page

\* getUserMedia settles: this.stream = the new stream, or the catch block
GetUserMedia(c, granted) ==
    /\ qr.sc[c] = "media"
    /\ qr' = IF granted
             THEN [qr EXCEPT !.sc[c] = "video", !.streams = @ + 1, !.stream = qr.streams + 1,
                             !.live = @ \cup {qr.streams + 1}]
             ELSE [qr EXCEPT !.sc[c] = "failed"]
    /\ UNCHANGED page

\* the wait for the video ends: play() resolved, or the video's error or
\* the ten seconds' timeout rejected
VideoSettles(c, outcome, frame) ==
    /\ qr.sc[c] = "video"
    /\ qr' = IF outcome = "played"
             THEN StartDetection([qr EXCEPT !.sc[c] = "done", !.isScanning = TRUE], frame)
             ELSE [qr EXCEPT !.sc[c] = "failed"]
    /\ Bounded(qr')
    /\ UNCHANGED page

StopCameraCalled ==
    /\ qr' = StopCamera(qr)
    /\ UNCHANGED page

PauseScanningCalled ==
    /\ qr' = PauseScanning(qr)
    /\ UNCHANGED page

ResumeScanningCalled(frame) ==
    /\ qr' = ResumeScanning(qr, frame)
    /\ Bounded(qr')
    /\ UNCHANGED page

\* restartScanning() up to its timer
RestartScanningCalled ==
    /\ CanStart
    /\ qr.restarts = 0
    /\ qr' = [StopCamera(qr) EXCEPT !.restarts = @ + 1]
    /\ UNCHANGED page

\* the 100 ms of restartScanning are over: startCamera()
RestartTimer ==
    /\ qr.restarts > 0
    /\ qr' = [StartCamera(qr, "restart") EXCEPT !.restarts = @ - 1]
    /\ UNCHANGED page

\* visibilitychange
VisibilityChange(frame) ==
    /\ LET q == [qr EXCEPT !.hidden = ~@]
       IN qr' = IF q.hidden /\ q.isScanning THEN PauseScanning(q)
                ELSE IF ~q.hidden /\ q.stream # 0 /\ ~q.isScanning THEN ResumeScanning(q, frame)
                ELSE q
    /\ Bounded(qr')
    /\ UNCHANGED page

\* a scheduled detectQR runs
AnimationFrame(frame) ==
    /\ qr.pending > 0
    /\ qr' = DetectQR([qr EXCEPT !.pending = @ - 1], frame)
    /\ Bounded(qr')
    /\ UNCHANGED page

InitScanner ==
    /\ sy = SyIdle /\ pm = PmIdle
    /\ qr \in {[QrIdle EXCEPT !.supported = supported] : supported \in BOOLEAN}
    /\ caches = Restrict(SeedCaches, {})
    /\ sw = SwParsed
    /\ inst = InstIdle
    /\ act = ActIdle
    /\ fh = [f \in 1..MaxFetches |-> FhIdle]
    /\ mh = [m \in 1..MaxMessages |-> MhIdle]
    /\ history = [initial |-> {}, deleted |-> {}]
    /\ served = "v2"
    /\ sm = SmIdle

MediaSettles == \E c \in DOMAIN qr.sc, granted \in BOOLEAN : GetUserMedia(c, granted)
VideoEnds ==
    \E c \in DOMAIN qr.sc, outcome \in {"played", "error", "timeout"}, frame \in Frames :
        VideoSettles(c, outcome, frame)
Resumes == \E frame \in Frames : ResumeScanningCalled(frame)
Visibility == \E frame \in Frames : VisibilityChange(frame)
Frame == \E frame \in Frames : AnimationFrame(frame)

NextScanner ==
    \/ StartCameraCalled \/ MediaSettles \/ VideoEnds
    \/ StopCameraCalled \/ PauseScanningCalled \/ Resumes
    \/ RestartScanningCalled \/ RestartTimer
    \/ Visibility \/ Frame

SpecScanner == InitScanner /\ [][NextScanner]_vars

\* C36: a startCamera that fails leaves no stream held and no scanning, and
\* no stream runs that this.stream does not hold.
C36_StreamOnlyWhileStarted ==
    [][/\ \A c \in DOMAIN qr.sc :
             (qr.sc[c] # "failed" /\ qr'.sc[c] = "failed") => (qr'.stream = 0 /\ ~qr'.isScanning)
       /\ qr'.live \subseteq {qr'.stream}]_vars

\* C37: never more than one detectQR callback is scheduled.
C37_OneDetectionLoop == qr.pending <= 1

====
